---- MODULE Spec2Model ----
(***************************************************************************)
(* Model of pvml: the job driver (joborder.py, Job.run / run_task /        *)
(* wrapped_subprocess_call / extract_lines) and the input resolution of    *)
(* the two interface backends (mmfi.py and eegs.py, Backend.initialize_job)*)
(*                                                                         *)
(* The specifications share the variables:                                 *)
(*   Spec        Job.run from its first statement to its return or raise   *)
(*   TaskSpec    one call of run_task with arbitrary arguments             *)
(*   LiveTaskSpec  TaskSpec with the fairness of the OS scheduler          *)
(*   ResolveSpec Backend.initialize_job of either backend, element by      *)
(*               element of the task table                                 *)
(*   EegsSpec    ResolveSpec for the EEGS backend alone                    *)
(*   SensingSpec the sensing interval that initialize_job computes         *)
(*   IntervalSpec  intersects and intersection of mmfi.py                  *)
(*   WjSpec      Backend.write_joborder, its validation and its result     *)
(*   CwdSpec     Job._create_working_directory                             *)
(*   ScanSpec    the scan of the LIST file of the MMFI backend             *)
(*   LocateSpec  Backend.locate_and_check_outputs of either backend        *)
(*   GroupSpec   the grouping of the located products by stem (MMFI)       *)
(*   StrategySpec  the choice between LIST file and directory scan (MMFI)  *)
(*   HandlerSpec PVMLLogFileHandler around the opening of pvml.log         *)
(*   TimeIntervalSpec  the time intervals of an input in write_joborder    *)
(***************************************************************************)
EXTENDS Integers, Sequences, FiniteSets, TLC

\* ------------------------------------------------------------------------
\* Bounds
\* ------------------------------------------------------------------------
\* largest number of tasks in a task table
MaxTasks == 2
\* bytes that all children of one run write together
MaxBytes == 2
\* capacity of a pipe buffer in bytes (65536 on Linux, scaled down)
PipeCap == 1
\* size of one os.read (8192 in joborder.py:143, scaled down)
ChunkMax == 2

\* Input elements of the task table
MaxInputs == 2
\* alternatives of one input
MaxAlts == 2
\* Alternative_Type elements of one EEGS alternative
MaxAltTypes == 2
\* input elements of the job configuration
MaxConfigInputs == 2
\* Output elements of one task
MaxOutputs == 1
\* product elements of one input element of the job configuration
MaxProducts == 2
\* the latest time of a product or of the configuration
MaxTime == 2

None == "None"
NoError == [kind |-> "None"]
NoTask == [name |-> None]
NoElement == [kind |-> None]
NoInput == [file_type |-> None]
Streams == {"stdout", "stderr"}
\* bytes a child can write: an ASCII letter, the newline, and the lead and
\* continuation byte of a two-byte UTF-8 sequence
Bytes == {"a", "NL", "LEAD", "CONT"}
\* exit statuses a child can end with
Statuses == {0, 1, 2}
\* lists of expected exit codes run_task can be called with
ExitCodeLists == {<<0>>, <<0, 2>>}
\* the Name of the i-th task of the task table
TaskName(i) == <<"t1", "t2", "t3", "t4">>[i]
TaskNames == {TaskName(i) : i \in 1..MaxTasks}
\* job configurations: without exitCodes elements, and with one for task t1
ExitCodeConfigs == {<<>>, [t \in {"t1"} |-> <<0, 2>>]}
\* returncode of a process that has not been waited for
NoStatus == <<>>

VARIABLES
    \* ---- Job.run ----
    stage,          \* position of Job.run
    events,         \* stages begun so far, in order
    job_tasks,      \* job.tasks
    exit_codes,     \* job.config.exit_codes: dict task name -> list of codes
    ti,             \* index of the task the for loop of Job.run is at
    pvml_log,       \* log_file_handler.pvml_log: "None", "open"
    error,          \* the exception that left run_task / Job.run, or None
    \* ---- run_task / wrapped_subprocess_call ----
    pc,             \* position inside run_task
    rt_name,        \* run_task parameter name
    rt_expected,    \* run_task parameter expected_exit_codes
    log_fp,         \* the handle of LOG.<job_id>: "None", "open", "closed"
    runlog,         \* lines of the file LOG.<job_id>
    procs,          \* the processes spawned so far
    pipes,          \* list pipes of the drain loop (as a set of streams)
    readable,       \* result of select.select still to be iterated
    pipe_state,     \* pipe_state[fd][0]: the undelivered partial line
    calls,          \* callbacks made in this call: <<stream, line>>
    status,         \* return value of process.wait()
    \* ---- the child process and the kernel pipes ----
    pipe_buf,       \* bytes in flight in each pipe
    wr_open,        \* streams whose write end the child still holds open
    blocked,        \* stream the child is blocked on in write(), or None
    written,        \* all bytes the current child wrote, per stream
    nbytes,         \* bytes written by all children of this run
    \* ---- Backend.initialize_job ----
    backend,        \* job.config.interface_backend: "MMFI", "EEGS"
    config_inputs,  \* job.config.inputs
    archive_has,    \* file types for which the archive query finds products
    rpc,            \* position of initialize_job
    predefined_inputs,  \* keys of the dict predefined_inputs
    input_cache,    \* input_cache (MMFI), selected_input_cache (EEGS)
    job_inputs,     \* job.inputs
    named_inputs,   \* named_inputs (MMFI)
    self_tasks,     \* self.tasks of the backend
    self_outputs,   \* keys of self.outputs of the backend
    task,           \* the Task being filled
    index,          \* number of the Input element within the task
    ninputs,        \* Input elements of the task table read so far
    input_element,  \* the Input element last read from the task table
    alternative_element,  \* EEGS: the Input_Alternative element last read
    input,          \* local input
    chosen,         \* the alternative at break (MMFI), its number (EEGS), in a
                    \* sequence that is empty before the break
    tried,          \* EEGS: alternatives of input_element tried so far
    \* ---- Backend.initialize_job: the sensing interval ----
    spc,            \* position in the assignment of the configured inputs
    variant_always_include_input_time_interval,  \* job.config, MMFI
    config_sensing, \* job.config.sensing_start, job.config.sensing_stop
    sensing,        \* self.sensing_start, self.sensing_stop (EEGS: toi_*)
    input_times,    \* locals input_start_time, input_stop_time
    resolved,       \* validity start and stop of the products resolved so far
    ncfg,           \* input elements of the configuration read so far
    nprod,          \* products of the current input resolved so far
    \* ---- mmfi.py: intersects and intersection ----
    ipc,            \* which of the two functions was called
    interval_a,     \* start_a, stop_a
    interval_b,     \* start_b, stop_b
    returned,       \* the value returned for (a, b) and for (b, a)
    \* ---- Backend.write_joborder ----
    wpc,            \* position in write_joborder
    dry_run,        \* parameter dry_run
    joborder_schema,    \* job.config.joborder_schema
    joborder_id,    \* job.config.joborder_id
    schema_errors,  \* errors that the schema finds in the tree
    filepath,       \* local filepath
    tree,           \* local tree
    wd_files,       \* the files of job.working_directory with their content
    wlog,           \* records logged by write_joborder
    wreturn,        \* what write_joborder returned or raised
    \* ---- Job._create_working_directory ----
    cpc,            \* position in _create_working_directory
    wd_exists,      \* self.working_directory.exists()
    wd_entries,     \* the entries of the working directory with their kind
    current_files,  \* local current_files, the part not yet visited
    cerror,         \* the exception that left _create_working_directory
    \* ---- mmfi.Backend._scan_list_file_for_output_products ----
    lpc,            \* position in the scan
    variant_listfile_contains_stem,     \* job.config
    nlines,         \* lines of the LIST file
    lindex,         \* local index: lines read so far
    has_errors,     \* local has_errors
    metadata_file,  \* local metadata_file, empty while it is unbound
    list_outputs,   \* the products appended to job.outputs, each with the
                    \* number of its line and of the .MTD files of that line
    llog,           \* the errors logged, each with the index of its line
    lerror,         \* the exception that left the scan
    \* ---- Backend.locate_and_check_outputs ----
    opc,            \* position in locate_and_check_outputs
    backend_outputs,    \* self.outputs: the declared external outputs
    job_outputs,    \* job.outputs: the number of products per product type
    to_check,       \* the part of self.outputs that the loop has yet to visit
    checked,        \* the product types that the loop has visited
    ohas_errors,    \* local has_errors
    olog,           \* the errors and warnings logged
    oerror,         \* the exception that left locate_and_check_outputs
    \* ---- mmfi.Backend.locate_and_check_outputs: grouping by stem ----
    gpc, \* position in the grouping of one output
    products, \* output.products
    gp, \* products of the output visited so far, the current one included
    gf, \* filepaths of the current product visited so far
    groups, \* local groups, in the order of insertion
    gerror, \* the exception that left the grouping
    \* ---- strategy of the MMFI output discovery (mmfi.py locate_and_check_outputs) ----
    stpc, \* position in the location step of locate_and_check_outputs
    variant_ignore_listfile, \* job.config.variant_ignore_listfile
    variant_listfile_uses_order_id, \* job.config.variant_listfile_uses_order_id
    variant_listfile_mandatory, \* job.config.variant_listfile_mandatory
    order_id, \* job.config.joborder_id
    list_names, \* names of the *.LIST files in the working directory
    scan_calls, \* the scans called so far, in order
    sterror, \* exception that left the location step, or NoError
    \* ---- PVMLLogFileHandler (joborder.py) ----
    hpc, \* where Job.run is with respect to pvml.log: "buffering", "open" or "closed"
    log_file_handler, \* the handler: pvml_log and pvml_log_buffer
    pvml_log_file, \* the lines of the file pvml.log
    records, \* the records that the logger handed to emit, in order
    nbefore, \* number of records emitted before pvml.log was opened
    \* ---- the time intervals of an input in MMFI write_joborder ----
    tvpc, \* position in the loop over input.files of write_joborder
    variant_clip_input_time_interval_to_sensing_interval, \* job.config.variant_clip_input_time_interval_to_sensing_interval
    input_files, \* input.files of the task input that is written
    nfiles, \* number of files the loop has been through
    time_intervals, \* the Time_Interval elements written so far
    tverror \* exception that left write_joborder, or NoError

run_vars == <<stage, events, job_tasks, exit_codes, ti, pvml_log, error>>
task_vars == <<pc, rt_name, rt_expected, log_fp, runlog, procs, pipes, readable,
               pipe_state, calls, status>>
child_vars == <<pipe_buf, wr_open, blocked, written, nbytes>>
res_vars == <<backend, config_inputs, archive_has, rpc, predefined_inputs,
              input_cache, job_inputs, named_inputs, self_tasks, self_outputs,
              task, index, ninputs, input_element, alternative_element, input,
              chosen, tried>>
sens_vars == <<spc, variant_always_include_input_time_interval, config_sensing,
               sensing, input_times, resolved, ncfg, nprod>>
ivl_vars == <<ipc, interval_a, interval_b, returned>>
wj_vars == <<wpc, dry_run, joborder_schema, joborder_id, schema_errors, filepath,
             tree, wd_files, wlog, wreturn>>
cwd_vars == <<cpc, wd_exists, wd_entries, current_files, cerror>>
ls_vars == <<lpc, variant_listfile_contains_stem, nlines, lindex, has_errors,
             metadata_file, list_outputs, llog, lerror>>
lo_vars == <<opc, backend_outputs, job_outputs, to_check, checked, ohas_errors,
             olog, oerror>>
sg_vars == <<gpc, products, gp, gf, groups, gerror>>
st_vars == <<stpc, variant_ignore_listfile, variant_listfile_uses_order_id, variant_listfile_mandatory, order_id, list_names, scan_calls, sterror>>
lh_vars == <<hpc, log_file_handler, pvml_log_file, records, nbefore>>
tv_vars == <<tvpc, variant_clip_input_time_interval_to_sensing_interval, input_files,
             nfiles, time_intervals, tverror>>
ext_vars == <<sens_vars, ivl_vars, wj_vars, cwd_vars, ls_vars, lo_vars,
              sg_vars,
              st_vars,
              lh_vars,
              tv_vars>>
base_vars == <<run_vars, task_vars, child_vars, res_vars>>
vars == <<base_vars, ext_vars>>

\* an absent time (None), and a time t
NoTime == <<>>
NoInterval == [start |-> NoTime, stop |-> NoTime]

\* the sensing interval is not being computed
SensIdle ==
    /\ spc = "idle"
    /\ variant_always_include_input_time_interval = FALSE
    /\ config_sensing = NoInterval
    /\ sensing = NoInterval
    /\ input_times = NoInterval
    /\ resolved = <<>>
    /\ ncfg = 0
    /\ nprod = 0

\* the parts of the program outside the specification at hand are at rest
NoArgs == [start |-> 0, stop |-> 0]
IvlIdle ==
    /\ ipc = "idle"
    /\ interval_a = NoArgs
    /\ interval_b = NoArgs
    /\ returned = <<>>
WjIdle ==
    /\ wpc = "idle"
    /\ dry_run = FALSE
    /\ joborder_schema = None
    /\ joborder_id = None
    /\ schema_errors = 0
    /\ filepath = None
    /\ tree = None
    /\ wd_files = <<>>
    /\ wlog = <<>>
    /\ wreturn = <<>>
CwdIdle ==
    /\ cpc = "idle"
    /\ wd_exists = FALSE
    /\ wd_entries = <<>>
    /\ current_files = <<>>
    /\ cerror = <<>>
LsIdle ==
    /\ lpc = "idle"
    /\ variant_listfile_contains_stem = FALSE
    /\ nlines = 0
    /\ lindex = 0
    /\ has_errors = FALSE
    /\ metadata_file = <<>>
    /\ list_outputs = <<>>
    /\ llog = <<>>
    /\ lerror = <<>>
LoIdle ==
    /\ opc = "idle"
    /\ backend_outputs = <<>>
    /\ job_outputs = <<>>
    /\ to_check = <<>>
    /\ checked = {}
    /\ ohas_errors = FALSE
    /\ olog = <<>>
    /\ oerror = <<>>
SgIdle ==
    /\ gpc = "idle"
    /\ products = <<>>
    /\ gp = 0
    /\ gf = 0
    /\ groups = <<>>
    /\ gerror = <<>>
StIdle ==
    /\ stpc = "idle"
    /\ variant_ignore_listfile = FALSE
    /\ variant_listfile_uses_order_id = FALSE
    /\ variant_listfile_mandatory = FALSE
    /\ order_id = "1"
    /\ list_names = {}
    /\ scan_calls = <<>>
    /\ sterror = NoError
LhIdle ==
    /\ hpc = "idle"
    /\ log_file_handler = [pvml_log |-> None, pvml_log_buffer |-> <<>>]
    /\ pvml_log_file = <<>>
    /\ records = <<>>
    /\ nbefore = 0
TvIdle ==
    /\ tvpc = "idle"
    /\ variant_clip_input_time_interval_to_sensing_interval = FALSE
    /\ input_files = <<>>
    /\ nfiles = 0
    /\ time_intervals = <<>>
    /\ tverror = NoError
ExtIdle == SensIdle /\ IvlIdle /\ WjIdle /\ CwdIdle /\ LsIdle /\ LoIdle
    /\ SgIdle /\ StIdle /\ LhIdle /\ TvIdle

\* ------------------------------------------------------------------------
\* joborder.py: extract_lines
\* ------------------------------------------------------------------------
\* str.find("\n", start): 0-based index of the first newline at or after
\* start, -1 when there is none
Find(buf, start) ==
    LET hits == {i \in start..(Len(buf) - 1) : buf[i + 1] = "NL"}
    IN IF hits = {} THEN -1 ELSE CHOOSE i \in hits : \A j \in hits : i <= j

\* Python slice buf[from:to]
Slice(buf, from, to) == SubSeq(buf, from + 1, to)

RECURSIVE extract_loop(_, _, _)
extract_loop(buf, lines, start) ==
    LET end == Find(buf, start)
    IN IF end = -1
       THEN [lines |-> lines, buf |-> Slice(buf, start, Len(buf))]
       ELSE extract_loop(buf, Append(lines, Slice(buf, start, end)), end + 1)

extract_lines(buf, start) ==
    LET end == Find(buf, start)
    IN IF end = -1
       THEN [lines |-> <<>>, buf |-> buf]
       ELSE extract_loop(buf, <<Slice(buf, 0, end)>>, end + 1)

\* bytes.decode('utf-8', errors='replace') of one chunk: a complete two-byte
\* sequence becomes the character "X", a lead byte without its continuation
\* and a continuation byte without its lead become U+FFFD, written "?"
RECURSIVE decode(_)
decode(data) ==
    IF data = <<>> THEN <<>>
    ELSE IF data[1] = "LEAD"
         THEN IF Len(data) >= 2 /\ data[2] = "CONT"
              THEN <<"X">> \o decode(SubSeq(data, 3, Len(data)))
              ELSE <<"?">> \o decode(Tail(data))
         ELSE IF data[1] = "CONT"
              THEN <<"?">> \o decode(Tail(data))
              ELSE <<data[1]>> \o decode(Tail(data))

\* log_callback: one record to the processor logger, one line to LOG.<job_id>
RECURSIVE callback_each(_, _, _)
callback_each(cs, stream, lines) ==
    IF lines = <<>> THEN cs
    ELSE callback_each(Append(cs, <<stream, Head(lines)>>), stream, Tail(lines))

log_lines(cs) == [i \in 1..Len(cs) |-> cs[i][2]]

\* ------------------------------------------------------------------------
\* The child process and the two kernel pipes
\* ------------------------------------------------------------------------
CurProc == procs[Len(procs)]
ChildAlive == procs /= <<>> /\ CurProc.state = "alive"

EmptyBufs == [s \in Streams |-> <<>>]

\* write(2) of one byte on a pipe with room
ChildWrite(s, b) ==
    /\ UNCHANGED <<res_vars, ext_vars>>
    /\ ChildAlive
    /\ s \in wr_open
    /\ blocked \in {None, s}
    /\ Len(pipe_buf[s]) < PipeCap
    /\ nbytes < MaxBytes
    /\ pipe_buf' = [pipe_buf EXCEPT ![s] = Append(@, b)]
    /\ written' = [written EXCEPT ![s] = Append(@, b)]
    /\ nbytes' = nbytes + 1
    /\ blocked' = None
    /\ UNCHANGED <<wr_open, run_vars, task_vars>>

\* write(2) on a full pipe: the child sleeps in the call until there is room
ChildBlock(s) ==
    /\ UNCHANGED <<res_vars, ext_vars>>
    /\ ChildAlive
    /\ s \in wr_open
    /\ blocked = None
    /\ Len(pipe_buf[s]) = PipeCap
    /\ nbytes < MaxBytes
    /\ blocked' = s
    /\ UNCHANGED <<pipe_buf, wr_open, written, nbytes, run_vars, task_vars>>

\* close(2) of one of the two streams
ChildClose(s) ==
    /\ UNCHANGED <<res_vars, ext_vars>>
    /\ ChildAlive
    /\ s \in wr_open
    /\ blocked = None
    /\ wr_open' = wr_open \ {s}
    /\ UNCHANGED <<pipe_buf, blocked, written, nbytes, run_vars, task_vars>>

\* exit(st): the kernel closes whatever the child still holds open
ChildExit(st) ==
    /\ UNCHANGED <<res_vars, ext_vars>>
    /\ ChildAlive
    /\ blocked = None
    /\ wr_open' = {}
    /\ procs' = [procs EXCEPT ![Len(procs)] = [@ EXCEPT !.state = "exited", !.status = <<st>>]]
    /\ UNCHANGED <<pipe_buf, blocked, written, nbytes, run_vars>>
    /\ UNCHANGED <<pc, rt_name, rt_expected, log_fp, runlog, pipes, readable,
                   pipe_state, calls, status>>

ChildStep ==
    \/ \E s \in Streams, b \in Bytes : ChildWrite(s, b)
    \/ \E s \in Streams : ChildBlock(s)
    \/ \E s \in Streams : ChildClose(s)
    \/ \E st \in Statuses : ChildExit(st)

\* ------------------------------------------------------------------------
\* joborder.py: wrapped_subprocess_call and run_task
\* ------------------------------------------------------------------------
\* a pipe that select.select reports: it holds data or is at end-of-stream
Ready(s) == Len(pipe_buf[s]) > 0 \/ s \notin wr_open

\* the drain loop as it would be if it read stdout to its end before stderr
select_stdout_first(ps) ==
    IF "stdout" \in ps THEN <<"stdout">>
    ELSE IF "stderr" \in ps THEN <<"stderr">> ELSE <<>>

\* select.select(pipes, [], []): the ready members of pipes, in list order
select(ps) ==
    (IF "stdout" \in ps /\ Ready("stdout") THEN <<"stdout">> ELSE <<>>)
    \o (IF "stderr" \in ps /\ Ready("stderr") THEN <<"stderr">> ELSE <<>>)

\* the loop as it would be if it ended with the first closed pipe
LoopDone_first_eof(ps) == Cardinality(ps) <= 1

\* condition of "while pipes:" being false
LoopDone(ps) == ps = {}

\* the check as it would be if it only accepted exit code 0
ExitCodeOk_zero_only(st, expected) == st = 0

\* "status not in expected_exit_codes" negated
ExitCodeOk(st, expected) == \E i \in 1..Len(expected) : expected[i] = st

\* the message of the ProcessorError of run_task
ExitCodeMessage(name, st, expected) ==
    [kind |-> "ProcessorError", task |-> name, code |-> st, expected |-> expected]

\* run_task up to and including subprocess.Popen
Spawn ==
    /\ UNCHANGED <<res_vars, ext_vars>>
    /\ pc = "spawn"
    /\ \/ /\ procs' = Append(procs, [task |-> rt_name, state |-> "alive",
                                     status |-> NoStatus, eof |-> {}])
          /\ pipes' = Streams
          /\ readable' = <<>>
          /\ pipe_state' = EmptyBufs
          /\ calls' = <<>>
          /\ log_fp' = "open"
          /\ pc' = "select"
          /\ pipe_buf' = EmptyBufs
          /\ wr_open' = Streams
          /\ blocked' = None
          /\ written' = EmptyBufs
          /\ UNCHANGED error
       \/ \* Popen raises (executable not found, permission denied); the
          \* with statement closes the log on the way out
          /\ error' = [kind |-> "OSError", task |-> rt_name]
          /\ log_fp' = "closed"
          /\ pc' = "raised"
          /\ UNCHANGED <<procs, pipes, readable, pipe_state, calls,
                         pipe_buf, wr_open, blocked, written>>
    /\ UNCHANGED <<stage, events, job_tasks, exit_codes, ti, pvml_log,
                   rt_name, rt_expected, runlog, status, nbytes>>

\* readable, _, _ = select.select(pipes, [], [])
Select ==
    /\ UNCHANGED <<res_vars, ext_vars>>
    /\ pc = "select"
    /\ ~LoopDone(pipes)
    /\ select(pipes) /= <<>>
    /\ readable' = select(pipes)
    /\ pc' = "read"
    /\ UNCHANGED <<run_vars, child_vars, rt_name, rt_expected, log_fp, runlog,
                   procs, pipes, pipe_state, calls, status>>

\* one iteration of "for pipe in readable"
ReadPipe ==
    /\ UNCHANGED <<res_vars, ext_vars>>
    /\ pc = "read"
    /\ readable /= <<>>
    /\ LET pipe == Head(readable)
           n == IF Len(pipe_buf[pipe]) < ChunkMax THEN Len(pipe_buf[pipe]) ELSE ChunkMax
           data == decode(SubSeq(pipe_buf[pipe], 1, n))
           buf == pipe_state[pipe]
       IN /\ Ready(pipe)      \* os.read blocks otherwise
          /\ pipe_buf' = [pipe_buf EXCEPT ![pipe] = SubSeq(@, n + 1, Len(@))]
          /\ IF Len(data) = 0
             THEN /\ calls' = IF Len(buf) > 0 THEN Append(calls, <<pipe, buf>>) ELSE calls
                  /\ runlog' = IF Len(buf) > 0 THEN Append(runlog, buf) ELSE runlog
                  /\ pipes' = pipes \ {pipe}
                  /\ procs' = [procs EXCEPT ![Len(procs)].eof = @ \cup {pipe}]
                  /\ UNCHANGED pipe_state
             ELSE LET r == extract_lines(buf \o data, Len(buf))
                  IN /\ pipe_state' = [pipe_state EXCEPT ![pipe] = r.buf]
                     /\ calls' = callback_each(calls, pipe, r.lines)
                     /\ runlog' = runlog \o r.lines
                     /\ UNCHANGED <<pipes, procs>>
          /\ readable' = Tail(readable)
          /\ pc' = IF Tail(readable) = <<>> THEN "select" ELSE "read"
    /\ UNCHANGED <<run_vars, wr_open, blocked, written, nbytes,
                   rt_name, rt_expected, log_fp, status>>

\* "while pipes:" ends
ExitLoop ==
    /\ UNCHANGED <<res_vars, ext_vars>>
    /\ pc = "select"
    /\ LoopDone(pipes)
    /\ pc' = "wait"
    /\ UNCHANGED <<run_vars, child_vars, rt_name, rt_expected, log_fp, runlog,
                   procs, pipes, readable, pipe_state, calls, status>>

\* return process.wait(), and the end of the with block in run_task
Wait ==
    /\ UNCHANGED <<res_vars, ext_vars>>
    /\ pc = "wait"
    /\ CurProc.state = "exited"
    /\ status' = CurProc.status
    /\ log_fp' = "closed"
    /\ pc' = "check"
    /\ UNCHANGED <<run_vars, child_vars, rt_name, rt_expected, runlog,
                   procs, pipes, readable, pipe_state, calls>>

\* the exit code check of run_task
CheckExit ==
    /\ UNCHANGED <<res_vars, ext_vars>>
    /\ pc = "check"
    /\ IF ExitCodeOk(status[1], rt_expected)
       THEN pc' = "returned" /\ UNCHANGED error
       ELSE pc' = "raised" /\ error' = ExitCodeMessage(rt_name, status[1], rt_expected)
    /\ UNCHANGED <<stage, events, job_tasks, exit_codes, ti, pvml_log, child_vars,
                   rt_name, rt_expected, log_fp, runlog, procs, pipes, readable,
                   pipe_state, calls, status>>

RunTaskStep == Spawn \/ Select \/ ReadPipe \/ ExitLoop \/ Wait \/ CheckExit

\* ------------------------------------------------------------------------
\* TaskSpec: one call run_task(exe, name, version, job_path, job_id,
\* expected_exit_codes)
\* ------------------------------------------------------------------------
TaskInit ==
    /\ stage = "run_task"
    /\ events = <<>>
    /\ job_tasks = <<>>
    /\ exit_codes = <<>>
    /\ ti = 0
    /\ pvml_log = None
    /\ error = NoError
    /\ pc = "spawn"
    /\ rt_name = "t1"
    /\ rt_expected \in ExitCodeLists
    /\ log_fp = None
    /\ runlog = <<>>
    /\ procs = <<>>
    /\ pipes = {}
    /\ readable = <<>>
    /\ pipe_state = EmptyBufs
    /\ calls = <<>>
    /\ status = NoStatus
    /\ pipe_buf = EmptyBufs
    /\ wr_open = {}
    /\ blocked = None
    /\ written = EmptyBufs
    /\ nbytes = 0
    /\ backend = None
    /\ config_inputs = <<>>
    /\ archive_has = {}
    /\ rpc = "idle"
    /\ predefined_inputs = {}
    /\ input_cache = <<>>
    /\ job_inputs = <<>>
    /\ named_inputs = <<>>
    /\ self_tasks = <<>>
    /\ self_outputs = {}
    /\ task = NoTask
    /\ index = 0
    /\ ninputs = 0
    /\ input_element = NoElement
    /\ alternative_element = <<>>
    /\ input = NoInput
    /\ chosen = <<>>
    /\ tried = 0
    /\ ExtIdle

TaskNext ==
    \/ Spawn
    \/ Select
    \/ ReadPipe
    \/ ExitLoop
    \/ Wait
    \/ CheckExit
    \/ \E s \in Streams, b \in Bytes : ChildWrite(s, b)
    \/ \E s \in Streams : ChildBlock(s)
    \/ \E s \in Streams : ChildClose(s)
    \/ \E st \in Statuses : ChildExit(st)

TaskSpec == TaskInit /\ [][TaskNext]_vars

\* the scheduler lets the parent and the child each run when they can
LiveTaskSpec ==
    /\ TaskInit
    /\ [][TaskNext]_vars
    /\ WF_vars(RunTaskStep)
    /\ WF_vars(ChildStep)

\* ------------------------------------------------------------------------
\* joborder.py: Job.run
\* ------------------------------------------------------------------------
\* joborder.Task(name, version, executable) as both backends construct it:
\* expected_exit_codes takes its default
JobTask(name) == [name |-> name, expected_exit_codes |-> <<0>>]

\* the loop as it would be if it swallowed the exception of run_task
LoopContinues_after_raise(p) == p \in {"idle", "returned", "raised"}

\* the for loop over job.tasks goes on when no task is running and the last
\* call of run_task returned
LoopContinues(p) == p \in {"idle", "returned"}

\* the finally clause with the statements of its if left out
ClosePvmlLog_kept(handle) == handle

\* finally: if self.log_file_handler.pvml_log is not None: close it and set
\* it to None
ClosePvmlLog(handle) == None

\* a stage called inside the try block raises: the exception travels to the
\* except and finally clauses
Raise(e) == stage' = "except" /\ error' = e

\* self.backend.initialize_job(self), seen from Job.run: it raises, or it
\* returns with job.tasks filled from the task table
InitializeJob ==
    /\ UNCHANGED <<res_vars, ext_vars>>
    /\ stage = "start"
    /\ events' = Append(events, "initialize_job")
    /\ \/ /\ stage' = "failed"
          /\ error' = [kind |-> "Error", at |-> "initialize_job"]
          /\ UNCHANGED job_tasks
       \/ \E n \in 0..MaxTasks :
             /\ job_tasks' = [i \in 1..n |-> JobTask(TaskName(i))]
             /\ stage' = "mkdir"
             /\ UNCHANGED error
    /\ UNCHANGED <<exit_codes, ti, pvml_log, task_vars, child_vars>>

\* self._create_working_directory()
CreateWorkingDirectory ==
    /\ UNCHANGED <<res_vars, ext_vars>>
    /\ stage = "mkdir"
    /\ events' = Append(events, "create_working_directory")
    /\ \/ /\ stage' = "failed"
          /\ error' = [kind |-> "Error", at |-> "create_working_directory"]
       \/ /\ stage' = "joborder"
          /\ UNCHANGED error
    /\ UNCHANGED <<job_tasks, exit_codes, ti, pvml_log, task_vars, child_vars>>

\* os.chdir, open pvml.log, self.backend.write_joborder(self)
WriteJoborder ==
    /\ UNCHANGED <<res_vars, ext_vars>>
    /\ stage = "joborder"
    /\ \/ \* chdir or open fails
          /\ Raise([kind |-> "OSError", at |-> "open"])
          /\ UNCHANGED <<pvml_log, events>>
       \/ /\ pvml_log' = "open"
          /\ events' = Append(events, "write_joborder")
          /\ \/ Raise([kind |-> "Error", at |-> "write_joborder"])
             \/ stage' = "retrieve" /\ UNCHANGED error
    /\ UNCHANGED <<job_tasks, exit_codes, ti, task_vars, child_vars>>

\* self._retrieve_inputs()
RetrieveInputs ==
    /\ UNCHANGED <<res_vars, ext_vars>>
    /\ stage = "retrieve"
    /\ events' = Append(events, "retrieve_inputs")
    /\ \/ Raise([kind |-> "ArchiveError", at |-> "retrieve_inputs"])
       \/ stage' = "tasks" /\ UNCHANGED error
    /\ UNCHANGED <<job_tasks, exit_codes, ti, pvml_log, task_vars, child_vars>>

\* for task in self.tasks: run_task(..., task.expected_exit_codes, ...)
NextTask ==
    /\ UNCHANGED <<res_vars, ext_vars>>
    /\ stage = "tasks"
    /\ LoopContinues(pc)
    /\ IF ti < Len(job_tasks)
       THEN /\ ti' = ti + 1
            /\ rt_name' = job_tasks[ti + 1].name
            /\ rt_expected' = job_tasks[ti + 1].expected_exit_codes
            /\ pc' = "spawn"
            /\ events' = Append(events, "run_task")
            /\ UNCHANGED stage
       ELSE /\ stage' = "locate"
            /\ pc' = "idle"
            /\ UNCHANGED <<ti, rt_name, rt_expected, events>>
    /\ UNCHANGED <<job_tasks, exit_codes, pvml_log, error, child_vars,
                   log_fp, runlog, procs, pipes, readable, pipe_state, calls, status>>

\* self.backend.locate_and_check_outputs(self)
LocateAndCheckOutputs ==
    /\ UNCHANGED <<res_vars, ext_vars>>
    /\ stage = "locate"
    /\ events' = Append(events, "locate_and_check_outputs")
    /\ \/ Raise([kind |-> "ProcessorError", at |-> "locate_and_check_outputs"])
       \/ stage' = "ingest" /\ UNCHANGED error
    /\ UNCHANGED <<job_tasks, exit_codes, ti, pvml_log, task_vars, child_vars>>

\* self._ingest_outputs(), the return and the finally clause
IngestOutputs ==
    /\ UNCHANGED <<res_vars, ext_vars>>
    /\ stage = "ingest"
    /\ events' = Append(events, "ingest_outputs")
    /\ \/ Raise([kind |-> "ArchiveError", at |-> "ingest_outputs"]) /\ UNCHANGED pvml_log
       \/ stage' = "done" /\ pvml_log' = ClosePvmlLog(pvml_log) /\ UNCHANGED error
    /\ UNCHANGED <<job_tasks, exit_codes, ti, task_vars, child_vars>>

\* except Exception: ... raise, and the finally clause
HandleException ==
    /\ UNCHANGED <<res_vars, ext_vars>>
    /\ \/ stage = "except"
       \/ stage = "tasks" /\ pc = "raised"
    /\ stage' = "failed"
    /\ pvml_log' = ClosePvmlLog(pvml_log)
    /\ UNCHANGED <<events, job_tasks, exit_codes, ti, error, task_vars, child_vars>>

\* KeyboardInterrupt reaches the parent while it waits for the output or the
\* end of a task: the with statement of run_task closes the run log, the
\* except clause of Job.run (except Exception) is passed over and its finally
\* clause runs
Interrupt ==
    /\ UNCHANGED <<res_vars, ext_vars>>
    /\ stage = "tasks"
    /\ pc \in {"select", "read", "wait"}
    /\ error' = [kind |-> "KeyboardInterrupt", task |-> rt_name]
    /\ log_fp' = "closed"
    /\ pc' = "raised"
    /\ UNCHANGED <<stage, events, job_tasks, exit_codes, ti, pvml_log, child_vars,
                   rt_name, rt_expected, runlog, procs, pipes, readable, pipe_state,
                   calls, status>>

Init ==
    /\ stage = "start"
    /\ events = <<>>
    /\ job_tasks = <<>>
    /\ exit_codes \in ExitCodeConfigs
    /\ ti = 0
    /\ pvml_log = None
    /\ error = NoError
    /\ pc = "idle"
    /\ rt_name = None
    /\ rt_expected = <<>>
    /\ log_fp = None
    /\ runlog = <<>>
    /\ procs = <<>>
    /\ pipes = {}
    /\ readable = <<>>
    /\ pipe_state = EmptyBufs
    /\ calls = <<>>
    /\ status = NoStatus
    /\ pipe_buf = EmptyBufs
    /\ wr_open = {}
    /\ blocked = None
    /\ written = EmptyBufs
    /\ nbytes = 0
    /\ backend = None
    /\ config_inputs = <<>>
    /\ archive_has = {}
    /\ rpc = "idle"
    /\ predefined_inputs = {}
    /\ input_cache = <<>>
    /\ job_inputs = <<>>
    /\ named_inputs = <<>>
    /\ self_tasks = <<>>
    /\ self_outputs = {}
    /\ task = NoTask
    /\ index = 0
    /\ ninputs = 0
    /\ input_element = NoElement
    /\ alternative_element = <<>>
    /\ input = NoInput
    /\ chosen = <<>>
    /\ tried = 0
    /\ ExtIdle

Next ==
    \/ InitializeJob
    \/ CreateWorkingDirectory
    \/ WriteJoborder
    \/ RetrieveInputs
    \/ NextTask
    \/ LocateAndCheckOutputs
    \/ IngestOutputs
    \/ HandleException
    \/ Interrupt
    \/ Spawn
    \/ Select
    \/ ReadPipe
    \/ ExitLoop
    \/ Wait
    \/ CheckExit
    \/ \E s \in Streams, b \in Bytes : ChildWrite(s, b)
    \/ \E s \in Streams : ChildBlock(s)
    \/ \E s \in Streams : ChildClose(s)
    \/ \E st \in Statuses : ChildExit(st)

Spec == Init /\ [][Next]_vars

\* ------------------------------------------------------------------------
\* Properties of Job.run and run_task
\* ------------------------------------------------------------------------
Range(f) == {f[i] : i \in DOMAIN f}

\* C1: Job.run spawns the tasks one at a time in task-table order: the i-th
\* process is the process of the i-th task (so no task is spawned twice), at
\* most one process is alive, and when a later process exists every earlier
\* one has exited and had both its streams read to end-of-stream.
C1_TasksOneAtATime ==
    /\ Len(procs) <= Len(job_tasks)
    /\ \A i \in 1..Len(procs) : procs[i].task = job_tasks[i].name
    /\ Cardinality({i \in 1..Len(procs) : procs[i].state = "alive"}) <= 1
    /\ \A i \in 1..(Len(procs) - 1) :
          procs[i].state = "exited" /\ procs[i].eof = Streams

\* the second task runs while the first one is over
C1_Witness ==
    /\ Len(procs) = 2
    /\ procs[2].state = "alive"
    /\ procs[1].state = "exited"

\* C2: run_task raises ProcessorError exactly when the exit status of the
\* child is not in expected_exit_codes; a status in the list, zero or not,
\* makes it return; the error names the task, the status and the list.
C2_RaisesIffUnexpected ==
    LET member == status /= NoStatus /\ status[1] \in Range(rt_expected)
    IN /\ pc = "returned" => member
       /\ (pc = "raised" /\ status /= NoStatus) =>
             /\ ~member
             /\ error = [kind |-> "ProcessorError", task |-> rt_name,
                         code |-> status[1], expected |-> rt_expected]
       /\ error.kind = "ProcessorError" => (pc = "raised" /\ status /= NoStatus /\ ~member)

\* a child that ends with the non-zero expected code 2
C2_Witness == pc = "returned" /\ status = <<2>> /\ rt_expected = <<0, 2>>

\* the list the job configuration gives for a task, [0] without one
ConfiguredExitCodes(name) ==
    IF name \in DOMAIN exit_codes THEN exit_codes[name] ELSE <<0>>

\* C3: the exit codes Job.run checks a task against are the ones the job
\* configuration lists for the task, [0] when it lists none: a task
\* configured with 0 2 that exits with 2 succeeds.
C3_ConfiguredExitCodesChecked ==
    /\ pc = "check" => rt_expected = ConfiguredExitCodes(rt_name)
    /\ pc = "returned" => status[1] \in Range(ConfiguredExitCodes(rt_name))
    /\ (pc = "raised" /\ error.kind = "ProcessorError") =>
          status[1] \notin Range(ConfiguredExitCodes(rt_name))

StageRank(e) ==
    CASE e = "initialize_job" -> 1
      [] e = "create_working_directory" -> 2
      [] e = "write_joborder" -> 3
      [] e = "retrieve_inputs" -> 4
      [] e = "run_task" -> 5
      [] e = "locate_and_check_outputs" -> 6
      [] e = "ingest_outputs" -> 7

TasksBegun(n) == Cardinality({j \in 1..n : events[j] = "run_task"})

C4_Order ==
    /\ \A i \in 1..(Len(events) - 1) :
          /\ StageRank(events[i]) <= StageRank(events[i + 1])
          /\ StageRank(events[i]) = StageRank(events[i + 1]) => events[i] = "run_task"
    /\ \A i \in 1..Len(events) : \A r \in 1..(StageRank(events[i]) - 1) :
          r /= StageRank("run_task") => \E j \in 1..(i - 1) : StageRank(events[j]) = r
    /\ \A i \in 1..Len(events) :
          StageRank(events[i]) > StageRank("run_task") => TasksBegun(i) = Len(job_tasks)
    /\ TasksBegun(Len(events)) <= Len(job_tasks)
    /\ TasksBegun(Len(events)) >= Len(procs)

\* C4: the stages of Job.run begin in the order initialize_job, create
\* working directory, write job order, retrieve inputs, run the tasks, locate
\* and check outputs, ingest; each at most once (one run_task per task); a
\* stage begins only after all earlier ones; and once a stage or a task has
\* raised, no further stage begins and no further process is spawned.
C4_StagesInOrder ==
    /\ []C4_Order
    /\ [][error /= NoError => (events' = events /\ Len(procs') = Len(procs))]_vars

\* the first of two tasks failed and the run is over
C4_Witness ==
    /\ stage = "failed"
    /\ error.kind = "ProcessorError"
    /\ Len(job_tasks) = 2
    /\ Len(procs) = 1

\* the lines of a text: the pieces between newlines, and what follows the
\* last newline when that is not empty
RECURSIVE SplitLines(_, _)
SplitLines(text, cur) ==
    IF text = <<>> THEN (IF cur = <<>> THEN <<>> ELSE <<cur>>)
    ELSE IF Head(text) = "NL"
         THEN <<cur>> \o SplitLines(Tail(text), <<>>)
         ELSE SplitLines(Tail(text), Append(cur, Head(text)))

\* the lines the callback of one stream was called with, in order
RECURSIVE LinesOf(_, _)
LinesOf(cs, s) ==
    IF cs = <<>> THEN <<>>
    ELSE (IF Head(cs)[1] = s THEN <<Head(cs)[2]>> ELSE <<>>) \o LinesOf(Tail(cs), s)

Drained == pc \in {"wait", "check", "returned"} \/ (pc = "raised" /\ status /= NoStatus)

\* C5: when both streams are drained, the callback of each stream has been
\* called with exactly the lines of the text written to it, in order, and
\* the run log holds one line per callback in callback order.
C5_LinesDeliveredExactly ==
    Drained =>
        /\ \A s \in Streams : LinesOf(calls, s) = SplitLines(decode(written[s]), <<>>)
        /\ runlog = log_lines(calls)

\* the part of C5 that the code keeps: the number of lines of each stream,
\* and the run log, are exact; so is every line of a stream whose bytes are
\* all ASCII
LineStructureKept ==
    Drained =>
        /\ \A s \in Streams :
              /\ Len(LinesOf(calls, s)) = Len(SplitLines(decode(written[s]), <<>>))
              /\ Range(written[s]) \subseteq {"a", "NL"} =>
                    LinesOf(calls, s) = SplitLines(decode(written[s]), <<>>)
        /\ runlog = log_lines(calls)

\* C6: the drain loop reads only a pipe that select reported and that is
\* still readable, and whenever it waits in select it reaches process.wait()
\* with both pipes closed, although the child blocks on a full pipe.
C6_DrainNeverDeadlocks ==
    /\ [](pc = "read" => (readable /= <<>> /\ Ready(Head(readable))))
    /\ (pc = "select") ~> (pc = "wait" /\ pipes = {})

\* the child wrote more to stderr than the pipe holds, and the loop ended
C6_Witness == pc = "wait" /\ Len(written["stderr"]) > PipeCap

\* ------------------------------------------------------------------------
\* mmfi.py and eegs.py: Backend.initialize_job
\* ------------------------------------------------------------------------
FileTypes == {"A", "B"}
\* Origin of an MMFI alternative
Origins == {"DB", "PROC", "LOG"}
\* Order of an MMFI alternative
Orders == {0, 1}
\* id and ref attributes of MMFI Input elements
Ids == {"n1"}
\* File_Name_Pattern of an EEGS output
Patterns == {"p1", "p2"}

\* d[k] = v, del d[k] on a dict
Put(d, k, v) == [x \in DOMAIN d \cup {k} |-> IF x = k THEN v ELSE d[x]]
Del(d, k) == [x \in DOMAIN d \ {k} |-> d[x]]

SeqsUpTo(S, n) == UNION {[1..k -> S] : k \in 0..n}

\* the first position of 1..n at which P holds, 0 when there is none: a for
\* loop that leaves with break at the first hit
First(n, P(_)) ==
    IF \E i \in 1..n : P(i)
    THEN CHOOSE i \in 1..n : P(i) /\ \A j \in 1..(i - 1) : ~P(j)
    ELSE 0

\* the input elements of a job configuration: a product type and the number
\* of product elements; the element at position i is for FileTypeSeq[i]
FileTypeSeq == <<"A", "B", "C", "D">>
ConfigInputLists ==
    {c \in SeqsUpTo([product_type : FileTypes, products : 0..1], MaxConfigInputs) :
        \A i \in 1..Len(c) : c[i].product_type = FileTypeSeq[i]}

\* joborder.Input(product_type, products): the products come from the job
\* configuration ("config") or from an archive query ("query")
JobInput(ft, src) == [product_type |-> ft, products |-> <<<<src, ft>>>>]

\* the alternatives of an MMFI input (Retrieval_Mode, T0 and T1 only reach
\* the archive query, whose answer archive_has gives per file type)
MmfiAlternatives ==
    [file_type : FileTypes, file_name_type : {"Physical"}, origin : Origins, order : Orders]

\* the Input elements of an MMFI task: one with a ref attribute, one whose
\* Mode excludes it from this job, one with alternatives
MmfiInputElements ==
    {[kind |-> "ref", ref |-> id] : id \in Ids}
    \cup {[kind |-> "skip"]}
    \cup {[kind |-> "alts", mandatory |-> m, id |-> id, alternatives |-> a] :
            m \in BOOLEAN, id \in Ids \cup {None},
            a \in SeqsUpTo(MmfiAlternatives, MaxAlts)}

RECURSIVE InsertByOrder(_, _)
InsertByOrder(srt, a) ==
    IF srt = <<>> THEN <<a>>
    ELSE IF Head(srt).order <= a.order
         THEN <<Head(srt)>> \o InsertByOrder(Tail(srt), a)
         ELSE <<a>> \o srt

RECURSIVE InsertAll(_, _)
InsertAll(srt, alts) ==
    IF alts = <<>> THEN srt ELSE InsertAll(InsertByOrder(srt, Head(alts)), Tail(alts))

\* sorted() as it would be without the key: the declared order is kept
sorted_unsorted(alts) == alts

\* sorted(alternatives, key=lambda alternative: alternative["order"]): stable
sorted(alts) == InsertAll(<<>>, alts)

\* mmfi.Input(file_type, file_name_type) with its files
MmfiInputOf(alt, files) ==
    [file_type |-> alt.file_type, file_name_type |-> alt.file_name_type, files |-> files]

\* the files of an input of origin PROC or LOG
LiteralFiles(alt) ==
    IF alt.origin = "LOG" THEN <<<<"LOG", "joborder_id">>>>
    ELSE <<<<"name", alt.file_type>>>>

\* the two loops over the sorted alternatives and the check that follows them
MmfiResolve(alts, m) ==
    LET n == Len(alts)
        hit1 == First(n, LAMBDA i : \/ alts[i].file_type \in DOMAIN input_cache
                                    \/ alts[i].file_type \in predefined_inputs)
        hit2 == First(n, LAMBDA i : \/ alts[i].origin = "DB" /\ alts[i].file_type \in archive_has
                                    \/ alts[i].origin \in {"PROC", "LOG"})
        same == [input |-> NoInput, chosen |-> 0, job_inputs |-> job_inputs,
                 predefined |-> predefined_inputs, error |-> NoError]
    IN IF hit1 /= 0
       THEN LET ft == alts[hit1].file_type
            IN IF ft \in DOMAIN input_cache
               THEN [same EXCEPT !.input = input_cache[ft], !.chosen = hit1]
               ELSE IF ft \in DOMAIN job_inputs
                    THEN [same EXCEPT !.chosen = hit1, !.error = [kind |-> "AssertionError"]]
                    ELSE [same EXCEPT !.input = MmfiInputOf(alts[hit1], <<<<"config", ft>>>>),
                                      !.chosen = hit1,
                                      !.job_inputs = Put(job_inputs, ft, JobInput(ft, "config")),
                                      !.predefined = predefined_inputs \ {ft}]
       ELSE IF hit2 /= 0
            THEN LET ft == alts[hit2].file_type
                 IN IF alts[hit2].origin = "DB"
                    THEN IF ft \in DOMAIN job_inputs
                         THEN [same EXCEPT !.chosen = hit2, !.error = [kind |-> "AssertionError"]]
                         ELSE [same EXCEPT !.input = MmfiInputOf(alts[hit2], <<<<"query", ft>>>>),
                                           !.chosen = hit2,
                                           !.job_inputs = Put(job_inputs, ft, JobInput(ft, "query"))]
                    ELSE [same EXCEPT !.input = MmfiInputOf(alts[hit2], LiteralFiles(alts[hit2])),
                                      !.chosen = hit2]
            ELSE IF m
                 THEN [same EXCEPT !.error =
                          [kind |-> "Error", what |-> "input not assigned",
                           input |-> index + 1, task |-> task.name,
                           expected |-> [i \in 1..n |-> alts[i].file_type]]]
                 ELSE same

\* the Alternative_Type elements of an EEGS input alternative: the origin is
\* EXTERNAL or the task whose output is taken
EegsAlternativeTypes ==
    [file_type : FileTypes, origin : {"EXTERNAL"} \cup TaskNames, virtual : BOOLEAN]

\* the Input_Alternative elements: a list of alternative types
EegsAlternatives == SeqsUpTo(EegsAlternativeTypes, MaxAltTypes) \ {<<>>}

\* the Input elements of an EEGS task
EegsInputElements ==
    [kind : {"Input"}, input_id : Ids, mandatory : BOOLEAN]

\* eegs.SelectedInput
SelectedInput(ft, names, internal, virt) ==
    [file_type |-> ft, file_names |-> names, internal_output |-> internal, virtual |-> virt]

NoOutput == [file_type |-> None]

\* the loop over self.tasks as it would be if it did not compare the name of
\* the task with the origin
InternalOutput_any_task(origin, ft) ==
    LET has(i) == {k \in 1..Len(self_tasks[i].outputs) : self_tasks[i].outputs[k].file_type = ft}
        cands == {i \in 1..Len(self_tasks) : has(i) /= {}}
    IN IF cands = {} THEN NoOutput
       ELSE LET i == CHOOSE c \in cands : \A d \in cands : d <= c
                k == CHOOSE c \in has(i) : \A d \in has(i) : c <= d
            IN self_tasks[i].outputs[k]

\* the loop over self.tasks looking for the output of a task-origin
\* alternative type: the last matching task that has the file type among its
\* outputs, and its first such output
InternalOutput(origin, ft) ==
    LET has(i) == {k \in 1..Len(self_tasks[i].outputs) : self_tasks[i].outputs[k].file_type = ft}
        cands == {i \in 1..Len(self_tasks) : self_tasks[i].name = origin /\ has(i) /= {}}
    IN IF cands = {} THEN NoOutput
       ELSE LET i == CHOOSE c \in cands : \A d \in cands : d <= c
                k == CHOOSE c \in has(i) : \A d \in has(i) : c <= d
            IN self_tasks[i].outputs[k]

\* the loop over the alternative types of one alternative
RECURSIVE EegsTypes(_, _)
EegsTypes(types, acc) ==
    IF types = <<>> THEN acc
    ELSE LET t == Head(types)
             ft == t.file_type
         IN IF t.origin = "EXTERNAL"
            THEN IF ft \in DOMAIN input_cache
                 THEN IF ft \in DOMAIN job_inputs
                      THEN EegsTypes(Tail(types),
                               [acc EXCEPT !.inputs = Append(@, input_cache[ft]),
                                           !.job_inputs = Append(@, job_inputs[ft])])
                      ELSE [acc EXCEPT !.error = [kind |-> "KeyError"]]
                 ELSE IF ft \in predefined_inputs
                      THEN EegsTypes(Tail(types),
                               [acc EXCEPT !.inputs = Append(@, SelectedInput(ft, <<<<"config", ft>>>>, FALSE, FALSE)),
                                           !.job_inputs = Append(@, JobInput(ft, "config"))])
                      ELSE [acc EXCEPT !.complete = FALSE]
            ELSE LET out == InternalOutput(t.origin, ft)
                 IN IF out = NoOutput
                    THEN [acc EXCEPT !.complete = FALSE]
                    ELSE EegsTypes(Tail(types),
                             [acc EXCEPT !.inputs = Append(@,
                                 SelectedInput(ft, <<<<"pattern", out.file_name_pattern>>>>, TRUE, t.virtual))])

\* for job_input in alternative_job_inputs
RECURSIVE AddJobInputs(_, _)
AddJobInputs(jis, st) ==
    IF jis = <<>> THEN st
    ELSE LET pt == Head(jis).product_type
         IN AddJobInputs(Tail(jis),
                [job_inputs |-> IF pt \in DOMAIN st.job_inputs THEN st.job_inputs
                                ELSE Put(st.job_inputs, pt, Head(jis)),
                 predefined |-> st.predefined \ {pt}])

\* for selected_input in alternative_inputs
RECURSIVE CacheSelected(_, _)
CacheSelected(sis, st) ==
    IF sis = <<>> THEN st
    ELSE LET si == Head(sis)
             ft == si.file_type
         IN CacheSelected(Tail(sis),
                [cache |-> IF ft \in DOMAIN st.cache THEN st.cache ELSE Put(st.cache, ft, si),
                 job_inputs |-> IF si.virtual /\ ft \in DOMAIN st.job_inputs
                                THEN Del(st.job_inputs, ft) ELSE st.job_inputs])

\* assign inputs based on config: the loop over job.config.inputs
AssignConfigInputs ==
    /\ rpc = "config"
    /\ \/ /\ predefined_inputs' =
                {config_inputs[i].product_type :
                    i \in {j \in 1..Len(config_inputs) : config_inputs[j].products > 0}}
          /\ rpc' = "tasks"
          /\ UNCHANGED error
       \/ \* archive.resolve_reference fails for a product
          /\ \E i \in 1..Len(config_inputs) : config_inputs[i].products > 0
          /\ error' = [kind |-> "ArchiveError"]
          /\ rpc' = "error"
          /\ UNCHANGED predefined_inputs
    /\ UNCHANGED ext_vars
    /\ UNCHANGED <<stage, events, job_tasks, exit_codes, ti, pvml_log, task_vars, child_vars>>
    /\ UNCHANGED <<backend, config_inputs, archive_has, input_cache, job_inputs,
                   named_inputs, self_tasks, self_outputs, task, index, ninputs,
                   input_element, alternative_element, input, chosen, tried>>

\* the head of the loop over the Task elements
BeginTask ==
    /\ rpc = "tasks"
    /\ Len(job_tasks) < MaxTasks
    /\ job_tasks' = Append(job_tasks, JobTask(TaskName(Len(job_tasks) + 1)))
    /\ task' = [name |-> TaskName(Len(job_tasks) + 1), inputs |-> <<>>, outputs |-> <<>>]
    /\ index' = 0
    /\ rpc' = "inputs"
    /\ UNCHANGED ext_vars
    /\ UNCHANGED <<stage, events, exit_codes, ti, pvml_log, error, task_vars, child_vars>>
    /\ UNCHANGED <<backend, config_inputs, archive_has, predefined_inputs, input_cache,
                   job_inputs, named_inputs, self_tasks, self_outputs, ninputs,
                   input_element, alternative_element, input, chosen, tried>>

CacheInput_forgotten(cache, bound) == cache

\* input_cache[input.file_type] = input
CacheInput(cache, bound) == Put(cache, bound.file_type, bound)

\* MMFI: one iteration of the loop over the Input elements of a task, from
\* the for statement to the end of the body
MmfiInput ==
    /\ rpc = "inputs"
    /\ backend = "MMFI"
    /\ ninputs < MaxInputs
    /\ index' = index + 1
    /\ ninputs' = ninputs + 1
    /\ \E el \in MmfiInputElements :
          LET keep == [input |-> input, chosen |-> 0, job_inputs |-> job_inputs,
                       predefined |-> predefined_inputs, error |-> NoError]
              alternatives == IF el.kind = "alts" THEN sorted(el.alternatives) ELSE <<>>
              r == CASE el.kind = "skip" -> keep
                     [] el.kind = "ref" ->
                          IF el.ref \in DOMAIN named_inputs
                          THEN [keep EXCEPT !.input = named_inputs[el.ref]]
                          ELSE [keep EXCEPT !.error =
                                   [kind |-> "Error", what |-> "unknown id", task |-> task.name]]
                     [] el.kind = "alts" -> MmfiResolve(alternatives, el.mandatory)
              bind == el.kind /= "skip" /\ r.error = NoError /\ r.input /= NoInput
          IN /\ input_element' = el
             /\ input' = r.input
             /\ chosen' = IF r.chosen = 0 THEN <<>> ELSE <<alternatives[r.chosen]>>
             /\ job_inputs' = r.job_inputs
             /\ predefined_inputs' = r.predefined
             /\ error' = r.error
             /\ rpc' = IF r.error = NoError THEN "bound" ELSE "error"
             /\ task' = IF bind THEN [task EXCEPT !.inputs = Append(@, r.input)] ELSE task
             /\ input_cache' = IF bind THEN CacheInput(input_cache, r.input)
                               ELSE input_cache
             /\ named_inputs' = IF bind /\ el.kind = "alts" /\ el.id /= None
                                THEN Put(named_inputs, el.id, r.input) ELSE named_inputs
    /\ UNCHANGED ext_vars
    /\ UNCHANGED <<stage, events, job_tasks, exit_codes, ti, pvml_log, task_vars, child_vars>>
    /\ UNCHANGED <<backend, config_inputs, archive_has, self_tasks, self_outputs, tried,
                   alternative_element>>

\* control is back at the for statement over the Input elements;
\* input_element, alternative_element, input and the alternative at break are
\* not read again before they are rebound
EndInput ==
    /\ rpc = "bound"
    /\ input_element' = NoElement
    /\ alternative_element' = <<>>
    /\ input' = NoInput
    /\ chosen' = <<>>
    /\ rpc' = "inputs"
    /\ UNCHANGED ext_vars
    /\ UNCHANGED <<stage, events, job_tasks, exit_codes, ti, pvml_log, error, task_vars, child_vars>>
    /\ UNCHANGED <<backend, config_inputs, archive_has, predefined_inputs, input_cache,
                   job_inputs, named_inputs, self_tasks, self_outputs, task, index,
                   ninputs, tried>>

\* EEGS: the head of the loop over the Input elements of a task
EegsBeginInput ==
    /\ rpc = "inputs"
    /\ backend = "EEGS"
    /\ ninputs < MaxInputs
    /\ index' = index + 1
    /\ ninputs' = ninputs + 1
    /\ input_element' \in EegsInputElements
    /\ input' = NoInput
    /\ chosen' = <<>>
    /\ tried' = 0
    /\ rpc' = "alts"
    /\ UNCHANGED ext_vars
    /\ UNCHANGED <<stage, events, job_tasks, exit_codes, ti, pvml_log, error, task_vars, child_vars>>
    /\ UNCHANGED <<backend, config_inputs, archive_has, predefined_inputs, input_cache,
                   job_inputs, named_inputs, self_tasks, self_outputs, task,
                   alternative_element>>

\* EEGS: the body of the loop over the Input_Alternative elements, and, when
\* the alternative is complete, the break and task.inputs.append(input)
EegsAlternative ==
    /\ rpc = "alts"
    /\ tried < MaxAlts
    /\ tried' = tried + 1
    /\ \E alt \in EegsAlternatives :
          LET r == EegsTypes(alt, [complete |-> TRUE, inputs |-> <<>>,
                                   job_inputs |-> <<>>, error |-> NoError])
              a == AddJobInputs(r.job_inputs,
                                [job_inputs |-> job_inputs, predefined |-> predefined_inputs])
              c == CacheSelected(r.inputs, [cache |-> input_cache, job_inputs |-> a.job_inputs])
              new == [input_id |-> input_element.input_id, alternative_id |-> tried + 1,
                      selected_inputs |-> r.inputs]
          IN /\ alternative_element' = alt
             /\ IF r.error /= NoError
                THEN /\ error' = r.error
                     /\ rpc' = "error"
                     /\ UNCHANGED <<job_inputs, predefined_inputs, input_cache, input, task, chosen>>
                ELSE IF ~r.complete
                THEN /\ rpc' = "incomplete"
                     /\ UNCHANGED <<error, job_inputs, predefined_inputs, input_cache,
                                     input, task, chosen>>
                ELSE /\ job_inputs' = c.job_inputs
                     /\ predefined_inputs' = a.predefined
                     /\ input_cache' = c.cache
                     /\ input' = new
                     /\ chosen' = <<tried + 1>>
                     /\ task' = [task EXCEPT !.inputs = Append(@, new)]
                     /\ rpc' = "bound"
                     /\ UNCHANGED error
    /\ UNCHANGED ext_vars
    /\ UNCHANGED <<stage, events, job_tasks, exit_codes, ti, pvml_log, task_vars, child_vars>>
    /\ UNCHANGED <<backend, config_inputs, archive_has, named_inputs, self_tasks,
                   self_outputs, index, ninputs, input_element>>

\* EEGS: an incomplete alternative was left with break; control is back at
\* the for statement over the Input_Alternative elements, which rebinds
\* alternative_element before it is read again
EndAlternative ==
    /\ rpc = "incomplete"
    /\ alternative_element' = <<>>
    /\ rpc' = "alts"
    /\ UNCHANGED ext_vars
    /\ UNCHANGED <<stage, events, job_tasks, exit_codes, ti, pvml_log, error, task_vars, child_vars>>
    /\ UNCHANGED <<backend, config_inputs, archive_has, predefined_inputs, input_cache,
                   job_inputs, named_inputs, self_tasks, self_outputs, task, index,
                   ninputs, input_element, input, chosen, tried>>

\* EEGS: the loop over the alternatives ends with input still None
EegsNoAlternative ==
    /\ rpc = "alts"
    /\ IF input_element.mandatory
       THEN /\ error' = [kind |-> "Error", what |-> "input not assigned",
                         input |-> input_element.input_id]
            /\ rpc' = "error"
       ELSE /\ rpc' = "inputs"
            /\ UNCHANGED error
    /\ UNCHANGED ext_vars
    /\ UNCHANGED <<stage, events, job_tasks, exit_codes, ti, pvml_log, task_vars, child_vars>>
    /\ UNCHANGED <<backend, config_inputs, archive_has, predefined_inputs, input_cache,
                   job_inputs, named_inputs, self_tasks, self_outputs, task, index,
                   ninputs, input_element, alternative_element, input, chosen, tried>>

\* the Output elements of a task: external ones have destination DB or DBPROC
\* (MMFI), External (EEGS); the file name of an MMFI output that is not a
\* Regexp is "", an EEGS output has its File_Name_Pattern
OutputElements ==
    [file_type : FileTypes, file_name_pattern : Patterns \cup {""}, external : BOOLEAN]

\* the loop over the Output elements of a task and self.tasks.append(task)
TaskOutputs ==
    /\ rpc = "inputs"
    /\ \E outs \in SeqsUpTo(OutputElements, MaxOutputs) :
          LET ext(i) == {outs[j].file_type : j \in {k \in 1..i : outs[k].external}}
              dup == First(Len(outs), LAMBDA i :
                         /\ outs[i].external
                         /\ outs[i].file_type \in self_outputs \cup ext(i - 1))
          IN /\ \A i \in 1..Len(outs) : (backend = "MMFI") <=> (outs[i].file_name_pattern = "")
             /\ IF dup /= 0
                THEN /\ task' = [task EXCEPT !.outputs = SubSeq(outs, 1, dup)]
                     /\ self_outputs' = self_outputs \cup ext(dup - 1)
                     /\ error' = [kind |-> "Error", what |-> "output included more than once",
                                  file_type |-> outs[dup].file_type]
                     /\ rpc' = "error"
                     /\ UNCHANGED self_tasks
                ELSE /\ task' = [task EXCEPT !.outputs = outs]
                     /\ self_outputs' = self_outputs \cup ext(Len(outs))
                     /\ self_tasks' = Append(self_tasks, [task EXCEPT !.outputs = outs])
                     /\ rpc' = "tasks"
                     /\ UNCHANGED error
    /\ UNCHANGED ext_vars
    /\ UNCHANGED <<stage, events, job_tasks, exit_codes, ti, pvml_log, task_vars, child_vars>>
    /\ UNCHANGED <<backend, config_inputs, archive_has, predefined_inputs, input_cache,
                   job_inputs, named_inputs, index, ninputs,
                   input_element, alternative_element, input, chosen, tried>>

\* list(predefined_inputs) as it would be if only one type were reported
UnassignedTypes_first(p) == {CHOOSE t \in p : TRUE}

\* product_types = list(predefined_inputs)
UnassignedTypes(p) == p

\* the check after the loop over the tasks
Finish ==
    /\ rpc = "tasks"
    /\ IF predefined_inputs /= {}
       THEN /\ error' = [kind |-> "Error", what |-> "unassigned",
                         types |-> UnassignedTypes(predefined_inputs)]
            /\ rpc' = "error"
       ELSE /\ rpc' = "ok"
            /\ UNCHANGED error
    /\ UNCHANGED ext_vars
    /\ UNCHANGED <<stage, events, job_tasks, exit_codes, ti, pvml_log, task_vars, child_vars>>
    /\ UNCHANGED <<backend, config_inputs, archive_has, predefined_inputs, input_cache,
                   job_inputs, named_inputs, self_tasks, self_outputs, task, index,
                   ninputs, input_element, alternative_element, input, chosen, tried>>

\* Job.run after self.backend.initialize_job(self): the call is outside the
\* try, an exception leaves run at once
InitializeJobReturn ==
    /\ stage = "start"
    /\ rpc \in {"ok", "error"}
    /\ stage' = IF rpc = "ok" THEN "mkdir" ELSE "failed"
    /\ events' = Append(events, "initialize_job")
    /\ UNCHANGED <<job_tasks, exit_codes, ti, pvml_log, error, task_vars, child_vars>>
    /\ UNCHANGED <<res_vars, ext_vars>>

ResolveInit ==
    /\ stage = "start"
    /\ events = <<>>
    /\ job_tasks = <<>>
    /\ exit_codes = <<>>
    /\ ti = 0
    /\ pvml_log = None
    /\ error = NoError
    /\ pc = "idle"
    /\ rt_name = None
    /\ rt_expected = <<>>
    /\ log_fp = None
    /\ runlog = <<>>
    /\ procs = <<>>
    /\ pipes = {}
    /\ readable = <<>>
    /\ pipe_state = EmptyBufs
    /\ calls = <<>>
    /\ status = NoStatus
    /\ pipe_buf = EmptyBufs
    /\ wr_open = {}
    /\ blocked = None
    /\ written = EmptyBufs
    /\ nbytes = 0
    /\ backend \in {"MMFI", "EEGS"}
    /\ config_inputs \in ConfigInputLists
    /\ archive_has \in SUBSET FileTypes
    /\ (backend = "EEGS") => (archive_has = {})
    /\ rpc = "config"
    /\ predefined_inputs = {}
    /\ input_cache = <<>>
    /\ job_inputs = <<>>
    /\ named_inputs = <<>>
    /\ self_tasks = <<>>
    /\ self_outputs = {}
    /\ task = NoTask
    /\ index = 0
    /\ ninputs = 0
    /\ input_element = NoElement
    /\ alternative_element = <<>>
    /\ input = NoInput
    /\ chosen = <<>>
    /\ tried = 0
    /\ ExtIdle

ResolveNext ==
    \/ AssignConfigInputs
    \/ BeginTask
    \/ MmfiInput
    \/ EndInput
    \/ EegsBeginInput
    \/ EegsAlternative
    \/ EndAlternative
    \/ EegsNoAlternative
    \/ TaskOutputs
    \/ Finish
    \/ InitializeJobReturn

ResolveSpec == ResolveInit /\ [][ResolveNext]_vars

\* initialize_job of the EEGS backend by itself
EegsInit == ResolveInit /\ backend = "EEGS"

EegsNext ==
    \/ AssignConfigInputs
    \/ BeginTask
    \/ EegsBeginInput
    \/ EegsAlternative
    \/ EndAlternative
    \/ EegsNoAlternative
    \/ EndInput
    \/ TaskOutputs
    \/ Finish
    \/ InitializeJobReturn

EegsSpec == EegsInit /\ [][EegsNext]_vars

\* ------------------------------------------------------------------------
\* Properties of Backend.initialize_job
\* ------------------------------------------------------------------------
\* the tasks of the backend, the one being filled included
TaskRecords ==
    {self_tasks[i] : i \in DOMAIN self_tasks} \cup (IF task = NoTask THEN {} ELSE {task})

\* the Resolved Inputs bound to the inputs of the tasks: the Input objects of
\* MMFI, the SelectedInput objects of EEGS
ResolvedInputs ==
    UNION {IF backend = "MMFI"
           THEN {t.inputs[i] : i \in DOMAIN t.inputs}
           ELSE UNION {{t.inputs[i].selected_inputs[k] :
                           k \in DOMAIN t.inputs[i].selected_inputs} : i \in DOMAIN t.inputs}
           : t \in TaskRecords}

\* C7: a file type is resolved at most once per job: all Resolved Inputs that
\* the tasks hold for one file type are the identical Resolved Input
C7_ResolvedOncePerFileType ==
    \A x, y \in ResolvedInputs : x.file_type = y.file_type => x = y

\* the MMFI backend by itself resolves a file type once
MmfiResolvedOnce == (backend = "MMFI") => C7_ResolvedOncePerFileType

\* the file type is in the resolution cache or in the pre-supplied
\* configuration
Known(a) == a.file_type \in DOMAIN input_cache \/ a.file_type \in predefined_inputs

\* the origin is DB and the archive query is not empty, or the origin is literal
Obtainable(a) ==
    \/ a.origin = "DB" /\ a.file_type \in archive_has
    \/ a.origin \in {"PROC", "LOG"}

\* position q comes before position p: smaller Order, or the same Order and
\* declared earlier
RankedBefore(alts, q, p) ==
    \/ alts[q].order < alts[p].order
    \/ alts[q].order = alts[p].order /\ q < p

\* the first alternative, in rank order, for which sat holds (none: {})
FirstRanked(alts, sat(_)) ==
    {alts[p] : p \in {p \in DOMAIN alts :
                        /\ sat(alts[p])
                        /\ \A q \in DOMAIN alts : RankedBefore(alts, q, p) => ~sat(alts[q])}}

\* a step that resolves an MMFI input without a named reference
MmfiAltsStep == rpc = "inputs" /\ backend = "MMFI" /\ input_element'.kind = "alts"

ErrorIs(what) == "what" \in DOMAIN error /\ error.what = what

\* C9: a mandatory input without satisfiable alternative fails initialize_job
\* with an error that names the task and the input, and no task is run; an
\* optional one is left out of the inputs of the task and resolution goes on
C9_MandatoryFailureNamesTaskAndInput ==
    /\ [](ErrorIs("input not assigned") =>
            /\ "task" \in DOMAIN error /\ error.task = task.name
            /\ "input" \in DOMAIN error
            /\ stage \in {"start", "failed"}
            /\ procs = <<>>)
    /\ [][/\ (/\ MmfiAltsStep
              /\ ~input_element'.mandatory
              /\ \A p \in DOMAIN input_element'.alternatives :
                    ~Known(input_element'.alternatives[p]) /\ ~Obtainable(input_element'.alternatives[p]))
             => (task' = task /\ rpc' = "bound")
          /\ (rpc = "alts" /\ tried' = tried /\ ~input_element.mandatory)
             => (task' = task /\ rpc' = "inputs")]_vars

\* the file types that the job configuration supplies with a product
ConfiguredTypes ==
    {config_inputs[i].product_type :
        i \in {j \in DOMAIN config_inputs : config_inputs[j].products > 0}}

\* the Resolved Input holds the products of the job configuration
FromConfig(x) ==
    IF backend = "MMFI" THEN x.files[1][1] = "config" ELSE x.file_names[1][1] = "config"

\* configured file types that no selected alternative of a task has consumed
Unconsumed ==
    ConfiguredTypes \ {x.file_type : x \in {y \in ResolvedInputs : FromConfig(y)}}

\* C10: initialize_job succeeds only if every configured file type was
\* consumed; at the end of the task table unconsumed types raise one error,
\* which lists all of them and is the only error of the call
C10_UnassignedReportedOnce ==
    /\ []((rpc = "ok" => Unconsumed = {})
          /\ (ErrorIs("unassigned") =>
                error.types = Unconsumed /\ Unconsumed /= {} /\ rpc = "error"))
    /\ [][/\ (rpc = "tasks" /\ rpc' \in {"ok", "error"}) =>
                /\ (rpc' = "error") <=> (Unconsumed /= {})
                /\ (rpc' = "error") => (error = NoError /\ "what" \in DOMAIN error' /\ error'.what = "unassigned")
          /\ (error /= NoError) => (error' = error)]_vars

\* after a task was processed, two configured file types are reported
C10_Witness ==
    /\ ErrorIs("unassigned")
    /\ Cardinality(error.types) = 2
    /\ self_tasks /= <<>>

\* the tasks placed before the one being filled that have the name and
\* declare an output of the file type
Declaring(origin, ft) ==
    {i \in DOMAIN self_tasks :
        /\ self_tasks[i].name = origin
        /\ \E k \in DOMAIN self_tasks[i].outputs : self_tasks[i].outputs[k].file_type = ft}

\* a step that evaluates an EEGS input alternative
EegsAlternativeStep == rpc = "alts" /\ tried' = tried + 1

\* the alternative types of origin Task_Name/Task_Version of the alternative
\* just evaluated
TaskOrigin(alt) == {k \in DOMAIN alt : alt[k].origin /= "EXTERNAL"}

EegsSelectStep == rpc = "alts" /\ rpc' = "bound"

\* C12: a file type for which a virtual alternative type was selected is not
\* a key of job.inputs: not when the selection is made, and not later while
\* a task holds the virtual input, so that it is not in job.inputs when
\* initialize_job completes
C12_VirtualNeverInJobInputs ==
    /\ [](\A x \in ResolvedInputs : x.virtual => x.file_type \notin DOMAIN job_inputs)
    /\ [][EegsSelectStep =>
            \A k \in DOMAIN alternative_element' :
               alternative_element'[k].virtual =>
                  alternative_element'[k].file_type \notin DOMAIN job_inputs']_vars

\* C12 holds for the alternative types of task origin
TaskVirtualNeverInJobInputs ==
    /\ [](\A x \in ResolvedInputs : x.virtual => x.file_type \notin DOMAIN job_inputs)
    /\ [][EegsSelectStep =>
            \A k \in TaskOrigin(alternative_element') :
               alternative_element'[k].virtual =>
                  alternative_element'[k].file_type \notin DOMAIN job_inputs']_vars

\* ------------------------------------------------------------------------
\* mmfi.py and eegs.py: Backend.initialize_job, the sensing interval
\* ------------------------------------------------------------------------
\* datetime.datetime.min and datetime.datetime.max
TimeMin == 0
TimeMax == MaxTime + 1
Times == 1..MaxTime
\* an Optional[datetime]
OptTimes == {NoTime} \cup {<<t>> : t \in Times}

\* a product element of the configuration with the product that
\* archive.resolve_reference returns for it
ConfigProducts ==
    [start_time : OptTimes, stop_time : OptTimes,
     validity_start : OptTimes, validity_stop : OptTimes]

\* validity_start and validity_stop of a product: MMFI prefers the times of
\* the configuration, EEGS has those of the archive only
Validity(cp) ==
    IF backend = "MMFI"
    THEN [start |-> IF cp.start_time = NoTime THEN cp.validity_start ELSE cp.start_time,
          stop |-> IF cp.stop_time = NoTime THEN cp.validity_stop ELSE cp.stop_time]
    ELSE [start |-> cp.validity_start, stop |-> cp.validity_stop]

\* if input_start_time is None or validity_start < input_start_time
EarlierOf(old, new) ==
    IF new = NoTime THEN old
    ELSE IF old = NoTime \/ new[1] < old[1] THEN new ELSE old

\* if input_stop_time is None or validity_stop > input_stop_time
LaterOf(old, new) ==
    IF new = NoTime THEN old
    ELSE IF old = NoTime \/ new[1] > old[1] THEN new ELSE old

\* if self.sensing_start is None and input_start_time is not None
IfNone(old, new) == IF old = NoTime /\ new /= NoTime THEN new ELSE old

\* an action of another part of the program leaves these unchanged
SensFrame == UNCHANGED <<base_vars, ivl_vars, wj_vars, cwd_vars, ls_vars, lo_vars,
        sg_vars, st_vars, lh_vars, tv_vars>>

\* self.sensing_start = job.config.sensing_start, and the same for the stop
SensingBegin ==
    /\ spc = "start"
    /\ sensing' = config_sensing
    /\ spc' = "inputs"
    /\ UNCHANGED <<variant_always_include_input_time_interval, config_sensing,
                   input_times, resolved, ncfg, nprod>>
    /\ SensFrame

\* the head of the loop over job.config.inputs: an input without products is
\* passed over
NextConfigInput ==
    /\ spc = "inputs"
    /\ ncfg < MaxConfigInputs
    /\ ncfg' = ncfg + 1
    /\ \/ /\ spc' = "inputs"
          /\ UNCHANGED <<input_times, nprod>>
       \/ /\ input_times' = NoInterval
          /\ nprod' = 0
          /\ spc' = "products"
    /\ UNCHANGED <<variant_always_include_input_time_interval, config_sensing,
                   sensing, resolved>>
    /\ SensFrame

\* the body of the loop over config_input.products
ResolveProduct ==
    /\ spc = "products"
    /\ nprod < MaxProducts
    /\ nprod' = nprod + 1
    /\ \E cp \in ConfigProducts :
          LET v == Validity(cp)
          IN IF /\ backend = "MMFI"
                /\ variant_always_include_input_time_interval
                /\ (v.start = NoTime \/ v.stop = NoTime)
             THEN /\ spc' = "error"
                  /\ UNCHANGED <<input_times, resolved>>
             ELSE /\ input_times' = [start |-> EarlierOf(input_times.start, v.start),
                                     stop |-> LaterOf(input_times.stop, v.stop)]
                  /\ resolved' = Append(resolved, v)
                  /\ UNCHANGED spc
    /\ UNCHANGED <<variant_always_include_input_time_interval, config_sensing,
                   sensing, ncfg>>
    /\ SensFrame

\* the end of the body of the loop over job.config.inputs
EndConfigInput ==
    /\ spc = "products"
    /\ nprod >= 1
    /\ sensing' = [start |-> IfNone(sensing.start, input_times.start),
                   stop |-> IfNone(sensing.stop, input_times.stop)]
    /\ spc' = "inputs"
    /\ UNCHANGED <<variant_always_include_input_time_interval, config_sensing,
                   input_times, resolved, ncfg, nprod>>
    /\ SensFrame

\* after the loop: MMFI puts datetime.min and datetime.max for a bound that
\* is still None, EEGS leaves it
SensingEnd ==
    /\ spc = "inputs"
    /\ sensing' = IF backend = "MMFI"
                  THEN [start |-> IF sensing.start = NoTime THEN <<TimeMin>> ELSE sensing.start,
                        stop |-> IF sensing.stop = NoTime THEN <<TimeMax>> ELSE sensing.stop]
                  ELSE sensing
    /\ spc' = "done"
    /\ UNCHANGED <<variant_always_include_input_time_interval, config_sensing,
                   input_times, resolved, ncfg, nprod>>
    /\ SensFrame

\* no job is running and no task table is being read
BaseIdle ==
    /\ stage = "start"
    /\ events = <<>>
    /\ job_tasks = <<>>
    /\ exit_codes = <<>>
    /\ ti = 0
    /\ pvml_log = None
    /\ error = NoError
    /\ pc = "idle"
    /\ rt_name = None
    /\ rt_expected = <<>>
    /\ log_fp = None
    /\ runlog = <<>>
    /\ procs = <<>>
    /\ pipes = {}
    /\ readable = <<>>
    /\ pipe_state = EmptyBufs
    /\ calls = <<>>
    /\ status = NoStatus
    /\ pipe_buf = EmptyBufs
    /\ wr_open = {}
    /\ blocked = None
    /\ written = EmptyBufs
    /\ nbytes = 0
    /\ config_inputs = <<>>
    /\ archive_has = {}
    /\ rpc = "idle"
    /\ predefined_inputs = {}
    /\ input_cache = <<>>
    /\ job_inputs = <<>>
    /\ named_inputs = <<>>
    /\ self_tasks = <<>>
    /\ self_outputs = {}
    /\ task = NoTask
    /\ index = 0
    /\ ninputs = 0
    /\ input_element = NoElement
    /\ alternative_element = <<>>
    /\ input = NoInput
    /\ chosen = <<>>
    /\ tried = 0

\* job.config.sensing_start and sensing_stop are Optional and unrelated
SensingInit ==
    /\ BaseIdle
    /\ backend \in {"MMFI", "EEGS"}
    /\ spc = "start"
    /\ variant_always_include_input_time_interval \in BOOLEAN
    /\ config_sensing \in [start : OptTimes, stop : OptTimes]
    /\ sensing = NoInterval
    /\ input_times = NoInterval
    /\ resolved = <<>>
    /\ ncfg = 0
    /\ nprod = 0
    /\ IvlIdle
    /\ WjIdle
    /\ CwdIdle
    /\ LsIdle
    /\ LoIdle
    /\ SgIdle
    /\ StIdle
    /\ LhIdle
    /\ TvIdle

SensingNext ==
    \/ SensingBegin
    \/ NextConfigInput
    \/ ResolveProduct
    \/ EndConfigInput
    \/ SensingEnd

SensingSpec == SensingInit /\ [][SensingNext]_vars

\* ------------------------------------------------------------------------
\* Claims C13 to C15: the sensing interval after initialize_job
\* ------------------------------------------------------------------------
\* the validity starts and stops of the configured inputs that were resolved
ValidityStarts == {resolved[i].start[1] : i \in {j \in 1..Len(resolved) : resolved[j].start /= NoTime}}
ValidityStops == {resolved[i].stop[1] : i \in {j \in 1..Len(resolved) : resolved[j].stop /= NoTime}}
Minimum(S) == CHOOSE x \in S : \A y \in S : x <= y
Maximum(S) == CHOOSE x \in S : \A y \in S : x >= y

\* C13: when the configuration pins no sensing start (stop), the sensing
\* start (stop) after initialize_job is the minimum of the validity starts
\* (the maximum of the validity stops) of all resolved configured inputs,
\* whatever the order of the inputs.
C13_SensingIsUnionOfInputs ==
    (spc = "done") =>
        /\ (config_sensing.start = NoTime /\ ValidityStarts /= {})
              => sensing.start = <<Minimum(ValidityStarts)>>
        /\ (config_sensing.stop = NoTime /\ ValidityStops /= {})
              => sensing.stop = <<Maximum(ValidityStops)>>

\* C14: after initialize_job of either backend both bounds of the sensing
\* interval are present; a bound that nothing determines is the sentinel
\* minimum or maximum, never None.
C14_BothBoundsPresent ==
    (spc = "done") => (sensing.start /= NoTime /\ sensing.stop /= NoTime)

\* the same for the MMFI backend alone, which holds
MmfiBothBoundsPresent ==
    (spc = "done" /\ backend = "MMFI") =>
        /\ sensing.start /= NoTime /\ sensing.stop /= NoTime
        /\ (config_sensing.start = NoTime /\ ValidityStarts = {}) => sensing.start = <<TimeMin>>
        /\ (config_sensing.stop = NoTime /\ ValidityStops = {}) => sensing.stop = <<TimeMax>>

\* C15: after initialize_job the sensing interval has start <= stop, for
\* every combination of configured bounds and input validity intervals.
C15_SensingStartNotAfterStop ==
    (spc = "done" /\ sensing.start /= NoTime /\ sensing.stop /= NoTime)
        => sensing.start[1] <= sensing.stop[1]

\* the same when the configured bounds and each product's validity are
\* themselves ordered: a configured start and an input's stop still cross
WellFormed(iv) == (iv.start /= NoTime /\ iv.stop /= NoTime) => iv.start[1] <= iv.stop[1]
OrderedInputsGiveOrderedSensing ==
    (/\ spc = "done"
     /\ WellFormed(config_sensing)
     /\ \A i \in 1..Len(resolved) : WellFormed(resolved[i])
     /\ sensing.start /= NoTime /\ sensing.stop /= NoTime)
        => sensing.start[1] <= sensing.stop[1]

\* ------------------------------------------------------------------------
\* mmfi.py: intersects and intersection
\* ------------------------------------------------------------------------
\* the time domain of the arguments, the sentinels included
AllTimes == TimeMin..TimeMax
Intervals == [start : AllTimes, stop : AllTimes]

Max2(x, y) == IF x >= y THEN x ELSE y
Min2(x, y) == IF x <= y THEN x ELSE y

\* intersects without the tests that each interval is ordered
intersects_unordered(start_a, stop_a, start_b, stop_b) ==
    start_b <= stop_a /\ start_a <= stop_b

intersects(start_a, stop_a, start_b, stop_b) ==
    start_a <= stop_a /\ start_b <= stop_b /\ start_b <= stop_a /\ start_a <= stop_b

intersection(start_a, stop_a, start_b, stop_b) ==
    <<Max2(start_a, start_b), Min2(stop_a, stop_b)>>

IvlFrame == UNCHANGED <<base_vars, sens_vars, wj_vars, cwd_vars, ls_vars, lo_vars,
        sg_vars, st_vars, lh_vars, tv_vars>>

\* intersects(a, b) and intersects(b, a)
CallIntersects ==
    /\ ipc = "args"
    /\ returned' = <<intersects(interval_a.start, interval_a.stop,
                                interval_b.start, interval_b.stop),
                     intersects(interval_b.start, interval_b.stop,
                                interval_a.start, interval_a.stop)>>
    /\ ipc' = "intersects"
    /\ UNCHANGED <<interval_a, interval_b>>
    /\ IvlFrame

\* intersection(a, b) and intersection(b, a)
CallIntersection ==
    /\ ipc = "args"
    /\ returned' = <<intersection(interval_a.start, interval_a.stop,
                                  interval_b.start, interval_b.stop),
                     intersection(interval_b.start, interval_b.stop,
                                  interval_a.start, interval_a.stop)>>
    /\ ipc' = "intersection"
    /\ UNCHANGED <<interval_a, interval_b>>
    /\ IvlFrame

IntervalInit ==
    /\ BaseIdle
    /\ backend = None
    /\ SensIdle
    /\ ipc = "args"
    /\ interval_a \in Intervals
    /\ interval_b \in Intervals
    /\ returned = <<>>
    /\ WjIdle
    /\ CwdIdle
    /\ LsIdle
    /\ LoIdle
    /\ SgIdle
    /\ StIdle
    /\ LhIdle
    /\ TvIdle

IntervalNext == CallIntersects \/ CallIntersection

IntervalSpec == IntervalInit /\ [][IntervalNext]_vars

\* ------------------------------------------------------------------------
\* Claim C16
\* ------------------------------------------------------------------------
Reversed(iv) == iv.stop < iv.start

\* C16: for all intervals a and b, intersection(a,b) = intersection(b,a) and
\* intersects(a,b) = intersects(b,a), and intersects(a,b) is false whenever
\* stop < start for either interval.
C16_IntersectionCommutes ==
    /\ (ipc \in {"intersects", "intersection"}) => returned[1] = returned[2]
    /\ (ipc = "intersects" /\ (Reversed(interval_a) \/ Reversed(interval_b)))
          => returned[1] = FALSE

\* intersects was called with a reversed interval that the other one covers
C16_Witness ==
    /\ ipc = "intersects"
    /\ Reversed(interval_a)
    /\ ~Reversed(interval_b)
    /\ interval_b.start <= interval_a.stop
    /\ interval_a.start <= interval_b.stop
    /\ returned = <<FALSE, FALSE>>

\* ------------------------------------------------------------------------
\* mmfi.py and eegs.py: Backend.write_joborder
\* ------------------------------------------------------------------------
\* errors in exc.error_log of one DocumentInvalid
MaxSchemaErrors == 2
JoborderIds == {"1", "2"}
\* a schema file that etree.XMLSchema reads, and one that it does not
SchemaFiles == {"schema.xsd", "broken.xsd"}

\* Path(job.working_directory, f"JobOrder.{job.config.joborder_id}.xml")
JoborderPath(id) == <<"JobOrder", id, "xml">>

\* etree.Element("Ipf_Job_Order") and etree.Element("Job_Order", ...)
RootElement == IF backend = "MMFI" THEN "Ipf_Job_Order" ELSE "Job_Order"

\* etree.tostring(tree, pretty_print=True, encoding="UTF-8", xml_declaration=True)
\* and the bytes that tree.write(...) with the same options puts in the file
tostring(t) == <<"<?xml version='1.0' encoding='UTF-8'?>", t.root, t.id>>

\* if not dry_run: raise Error(...), with the test left out
ValidationFatal_always(dry) == TRUE

\* if not dry_run: raise Error(f"invalid joborder file")
ValidationFatal(dry) == ~dry

WjFrame == UNCHANGED <<base_vars, sens_vars, ivl_vars, cwd_vars, ls_vars, lo_vars,
        sg_vars, st_vars, lh_vars, tv_vars>>

\* if not dry_run: filepath = ...; logger.info(...)
WjBegin ==
    /\ wpc = "start"
    /\ IF dry_run
       THEN UNCHANGED <<filepath, wlog>>
       ELSE /\ filepath' = JoborderPath(joborder_id)
            /\ wlog' = Append(wlog, <<"INFO", "creating joborder file", JoborderPath(joborder_id)>>)
    /\ wpc' = "build"
    /\ UNCHANGED <<dry_run, joborder_schema, joborder_id, schema_errors, tree,
                   wd_files, wreturn>>
    /\ WjFrame

\* joborder = etree.Element(...) ... tree = etree.ElementTree(joborder)
WjBuildTree ==
    /\ wpc = "build"
    /\ tree' = [root |-> RootElement, id |-> joborder_id]
    /\ wpc' = "validate"
    /\ UNCHANGED <<dry_run, joborder_schema, joborder_id, schema_errors, filepath,
                   wd_files, wlog, wreturn>>
    /\ WjFrame

\* if job.config.joborder_schema is not None: ... xmlschema.assertValid(tree)
WjValidate ==
    /\ wpc = "validate"
    /\ IF joborder_schema = None
       THEN /\ wpc' = "finish"
            /\ UNCHANGED <<wlog, wreturn>>
       ELSE IF joborder_schema = "broken.xsd"
       THEN \* etree.XMLSchema(file=...) raises
            /\ wpc' = "raised"
            /\ wreturn' = <<"XMLSchemaParseError">>
            /\ UNCHANGED wlog
       ELSE IF schema_errors = 0
       THEN /\ wlog' = Append(wlog, <<"INFO", "joborder valid according to schema">>)
            /\ wpc' = "finish"
            /\ UNCHANGED wreturn
       ELSE /\ wlog' = wlog \o <<<<"ERROR", "could not verify joborder against schema">>>>
                            \o [i \in 1..schema_errors |-> <<"ERROR", "error_log", i>>]
            /\ IF ValidationFatal(dry_run)
               THEN /\ wpc' = "raised"
                    /\ wreturn' = <<"Error", "invalid joborder file">>
               ELSE /\ wpc' = "finish"
                    /\ UNCHANGED wreturn
    /\ UNCHANGED <<dry_run, joborder_schema, joborder_id, schema_errors, filepath,
                   tree, wd_files>>
    /\ WjFrame

\* if dry_run: return etree.tostring(...); tree.write(filepath, ...); return filepath
WjFinish ==
    /\ wpc = "finish"
    /\ IF dry_run
       THEN /\ wreturn' = <<"bytes", tostring(tree)>>
            /\ UNCHANGED wd_files
       ELSE /\ wd_files' = Put(wd_files, filepath, tostring(tree))
            /\ wreturn' = <<"path", filepath>>
    /\ wpc' = "returned"
    /\ UNCHANGED <<dry_run, joborder_schema, joborder_id, schema_errors, filepath,
                   tree, wlog>>
    /\ WjFrame

\* Job.run calls write_joborder after _create_working_directory has emptied
\* the working directory and pvml.log was opened there; Job.get_joborder
\* calls it with dry_run=True
WjInit ==
    /\ BaseIdle
    /\ backend \in {"MMFI", "EEGS"}
    /\ SensIdle
    /\ IvlIdle
    /\ wpc = "start"
    /\ dry_run \in BOOLEAN
    /\ joborder_schema \in {None} \cup SchemaFiles
    /\ joborder_id \in JoborderIds
    /\ schema_errors \in 0..MaxSchemaErrors
    /\ filepath = None
    /\ tree = None
    /\ wd_files = <<>>
    /\ wlog = <<>>
    /\ wreturn = <<>>
    /\ CwdIdle
    /\ LsIdle
    /\ LoIdle
    /\ SgIdle
    /\ StIdle
    /\ LhIdle
    /\ TvIdle

WjNext == WjBegin \/ WjBuildTree \/ WjValidate \/ WjFinish

WjSpec == WjInit /\ [][WjNext]_vars

\* ------------------------------------------------------------------------
\* Claim C17
\* ------------------------------------------------------------------------
\* the schema is read and finds the tree invalid
ValidationFails == joborder_schema = "schema.xsd" /\ schema_errors > 0

\* the violation was logged
ViolationLogged ==
    \E i \in 1..Len(wlog) : wlog[i] = <<"ERROR", "could not verify joborder against schema">>

\* C17: with dry_run=True write_joborder never writes to the file system and
\* returns the manifest content even when schema validation fails; with
\* dry_run=False a schema validation failure raises an error before anything
\* is written, so a manifest file exists in the working directory only if it
\* passed validation or no schema is configured.
C17_DryRunPureAndInvalidNotWritten ==
    /\ dry_run => wd_files = <<>>
    /\ (dry_run /\ wpc \in {"returned", "raised"} /\ joborder_schema /= "broken.xsd")
          => /\ wpc = "returned"
             /\ wreturn = <<"bytes", tostring(tree)>>
             /\ ValidationFails => ViolationLogged
    /\ (~dry_run /\ ValidationFails /\ wpc \in {"returned", "raised"})
          => /\ wpc = "raised"
             /\ wreturn = <<"Error", "invalid joborder file">>
             /\ ViolationLogged
    /\ (wd_files /= <<>>)
          => /\ ~dry_run
             /\ joborder_schema = None \/ (joborder_schema = "schema.xsd" /\ schema_errors = 0)
             /\ DOMAIN wd_files = {JoborderPath(joborder_id)}
             /\ wd_files[JoborderPath(joborder_id)] = tostring(tree)
             /\ wreturn = <<"path", JoborderPath(joborder_id)>>

\* a dry build of a tree that the schema rejects returned its content
C17_Witness ==
    /\ dry_run
    /\ ValidationFails
    /\ wpc = "returned"
    /\ wreturn = <<"bytes", tostring(tree)>>
    /\ wd_files = <<>>

\* ------------------------------------------------------------------------
\* joborder.py: Job._create_working_directory
\* ------------------------------------------------------------------------
\* entries of the working directory left by a previous run
MaxEntries == 3
EntryNames == 1..MaxEntries
\* a regular file, a symbolic link, a directory
EntryKinds == {"file", "link", "dir"}
\* the content of a directory: a kind for each of its entries
Directories == UNION {[N -> EntryKinds] : N \in SUBSET EntryNames}
\* os.listdir returns the entries in arbitrary order
listdir(dir) ==
    {f \in [1..Cardinality(DOMAIN dir) -> DOMAIN dir] :
        \A i, j \in 1..Cardinality(DOMAIN dir) : f[i] = f[j] => i = j}

\* the names that the module joborder binds: the imports at its head
Imported == {"copy", "datetime", "logging", "os", "select", "subprocess", "sys",
             "tempfile"}

\* os.path.isfile(path) or os.path.islink(path)
IsFileOrLink(kind) == kind \in {"file", "link"}

CwdFrame == UNCHANGED <<base_vars, sens_vars, ivl_vars, wj_vars, ls_vars, lo_vars,
        sg_vars, st_vars, lh_vars, tv_vars>>

\* if not self.working_directory.exists(): os.mkdir(...) else: os.listdir(...)
CwdBegin ==
    /\ cpc = "start"
    /\ IF ~wd_exists
       THEN \/ /\ wd_exists' = TRUE
               /\ cpc' = "returned"
               /\ UNCHANGED <<current_files, cerror>>
            \/ \* os.mkdir raises
               /\ cerror' = <<"Error", "could not create working directory", "OSError">>
               /\ cpc' = "raised"
               /\ UNCHANGED <<wd_exists, current_files>>
       ELSE /\ current_files' \in listdir(wd_entries)
            /\ cpc' = "entries"
            /\ UNCHANGED <<wd_exists, cerror>>
    /\ UNCHANGED wd_entries
    /\ CwdFrame

\* one iteration of the loop over current_files
CwdRemoveEntry ==
    /\ cpc = "entries"
    /\ current_files /= <<>>
    /\ LET entry == Head(current_files)
       IN IF IsFileOrLink(wd_entries[entry])
          THEN \/ \* os.remove(path)
                  /\ wd_entries' = Del(wd_entries, entry)
                  /\ current_files' = Tail(current_files)
                  /\ UNCHANGED <<cpc, cerror>>
               \/ \* os.remove raises
                  /\ cerror' = <<"Error", "could not empty working directory", "OSError">>
                  /\ cpc' = "raised"
                  /\ UNCHANGED <<wd_entries, current_files>>
          ELSE IF "shutil" \in Imported
          THEN \/ \* shutil.rmtree(path)
                  /\ wd_entries' = Del(wd_entries, entry)
                  /\ current_files' = Tail(current_files)
                  /\ UNCHANGED <<cpc, cerror>>
               \/ \* shutil.rmtree raises
                  /\ cerror' = <<"Error", "could not empty working directory", "OSError">>
                  /\ cpc' = "raised"
                  /\ UNCHANGED <<wd_entries, current_files>>
          ELSE \* the name shutil is not bound
               /\ cerror' = <<"Error", "could not empty working directory", "NameError">>
               /\ cpc' = "raised"
               /\ UNCHANGED <<wd_entries, current_files>>
    /\ UNCHANGED wd_exists
    /\ CwdFrame

\* the loop is over
CwdReturn ==
    /\ cpc = "entries"
    /\ current_files = <<>>
    /\ cpc' = "returned"
    /\ UNCHANGED <<wd_exists, wd_entries, current_files, cerror>>
    /\ CwdFrame

CwdInit ==
    /\ BaseIdle
    /\ backend = None
    /\ SensIdle
    /\ IvlIdle
    /\ WjIdle
    /\ cpc = "start"
    /\ wd_exists \in BOOLEAN
    /\ wd_entries \in Directories
    /\ ~wd_exists => wd_entries = <<>>
    /\ current_files = <<>>
    /\ cerror = <<>>
    /\ LsIdle
    /\ LoIdle
    /\ SgIdle
    /\ StIdle
    /\ LhIdle
    /\ TvIdle

CwdNext == CwdBegin \/ CwdRemoveEntry \/ CwdReturn

CwdSpec == CwdInit /\ [][CwdNext]_vars

\* ------------------------------------------------------------------------
\* Claim C18
\* ------------------------------------------------------------------------
\* C18: whenever _create_working_directory returns normally the working
\* directory exists and is empty, for every prior content of the directory:
\* regular files and symbolic links are removed and subdirectories are
\* removed recursively, so that the call fails only when the operating
\* system refuses an operation.
C18_WorkingDirectoryCleared ==
    /\ (cpc = "returned") => (wd_exists /\ wd_entries = <<>>)
    /\ (cpc = "raised") => (cerror[3] = "OSError")

\* the part that holds: a normal return leaves an existing, empty directory
ReturnsOnlyWhenEmpty == (cpc = "returned") => (wd_exists /\ wd_entries = <<>>)

\* a subdirectory is never removed
SubdirectoryNeverRemoved ==
    [][\A e \in DOMAIN wd_entries : wd_entries[e] = "dir" => e \in DOMAIN wd_entries']_vars

\* ------------------------------------------------------------------------
\* mmfi.py: Backend._scan_list_file_for_output_products
\* ------------------------------------------------------------------------
\* lines of the LIST file
MaxLines == 3
\* files that a stem of the LIST file matches, per kind
MaxMatches == 2

\* what the working directory and the configuration hold for one line:
\* nfiles non-metadata files and nmeta .MTD files that the line matches, and
\* the product type of the first match_expression that matches the line
\* ("" when there is none, "X" a type that is no output of the task table)
LineProductTypes == {"", "A", "X"}
StemLines == [nfiles : 0..MaxMatches, nmeta : 0..MaxMatches, product_type : LineProductTypes]
\* without stems the line names one file, with at most one .MTD file
FileLines == [nfiles : 0..1, nmeta : 0..1, product_type : LineProductTypes]
ListLines == IF variant_listfile_contains_stem THEN StemLines ELSE FileLines

\* the errors that the first part of the loop body logs for a line
FileErrors(line) ==
    IF variant_listfile_contains_stem
    THEN (IF line.nfiles = 0 THEN <<"stem does not match any (non-metadata) files">> ELSE <<>>)
         \o (IF line.nmeta > 1 THEN <<"found more than one metadata file">> ELSE <<>>)
    ELSE IF line.nfiles = 0 THEN <<"file not found in working directory">> ELSE <<>>

\* metadata_file after the first part of the loop body: assigned only when
\* exactly one .MTD file matches the stem, or the .MTD file of an existing
\* file exists; otherwise the binding of an earlier line, or none, remains
MetadataFileAfter(old, line, number) ==
    IF variant_listfile_contains_stem
    THEN IF line.nmeta = 1 THEN <<number>> ELSE old
    ELSE IF line.nfiles > 0 /\ line.nmeta = 1 THEN <<number>> ELSE old

\* the errors that the second part of the loop body logs for a line
TypeErrors(line) ==
    IF line.product_type = "" THEN <<"cannot determine product type">>
    ELSE IF line.nfiles > 0 /\ line.product_type \notin {"A"}
    THEN <<"unexpected product type">>
    ELSE <<>>

\* the line reaches output.products.append(...)
Appends(line) == line.product_type = "A" /\ line.nfiles > 0

LsFrame == UNCHANGED <<base_vars, sens_vars, ivl_vars, wj_vars, cwd_vars, lo_vars,
        sg_vars, st_vars, lh_vars, tv_vars>>

\* one iteration of the loop over the lines of the LIST file
ScanLine ==
    /\ lpc = "lines"
    /\ lindex < nlines
    /\ \E line \in ListLines :
          LET number == lindex + 1
              errors == FileErrors(line) \o TypeErrors(line)
              mf == MetadataFileAfter(metadata_file, line, number)
          IN /\ lindex' = number
             /\ metadata_file' = mf
             /\ llog' = llog \o [i \in 1..Len(errors) |-> <<number, errors[i]>>]
             /\ has_errors' = (has_errors \/ errors /= <<>>)
             /\ IF Appends(line)
                THEN IF mf = <<>>
                     THEN \* metadata_file is read before any assignment
                          /\ lerror' = <<"UnboundLocalError">>
                          /\ lpc' = "raised"
                          /\ UNCHANGED list_outputs
                     ELSE /\ list_outputs' = Append(list_outputs, [line |-> number, nmeta |-> line.nmeta, metadata_file |-> mf])
                          /\ UNCHANGED <<lpc, lerror>>
                ELSE UNCHANGED <<lpc, lerror, list_outputs>>
    /\ UNCHANGED <<variant_listfile_contains_stem, nlines>>
    /\ LsFrame

\* if has_errors: raise ProcessorError(...)
ScanEnd ==
    /\ lpc = "lines"
    /\ lindex = nlines
    /\ IF has_errors
       THEN /\ lerror' = <<"ProcessorError", "LIST file contains errors">>
            /\ lpc' = "raised"
       ELSE /\ lpc' = "returned"
            /\ UNCHANGED lerror
    /\ UNCHANGED <<variant_listfile_contains_stem, nlines, lindex, has_errors,
                   metadata_file, list_outputs, llog>>
    /\ LsFrame

ScanInit ==
    /\ BaseIdle
    /\ backend = "MMFI"
    /\ SensIdle
    /\ IvlIdle
    /\ WjIdle
    /\ CwdIdle
    /\ lpc = "lines"
    /\ variant_listfile_contains_stem \in BOOLEAN
    /\ nlines \in 0..MaxLines
    /\ lindex = 0
    /\ has_errors = FALSE
    /\ metadata_file = <<>>
    /\ list_outputs = <<>>
    /\ llog = <<>>
    /\ lerror = <<>>
    /\ LoIdle
    /\ SgIdle
    /\ StIdle
    /\ LhIdle
    /\ TvIdle

ScanNext == ScanLine \/ ScanEnd

ScanSpec == ScanInit /\ [][ScanNext]_vars

\* ------------------------------------------------------------------------
\* Claim C19
\* ------------------------------------------------------------------------
\* C19: the scan of the LIST file is not fail-fast: every line is examined
\* whatever errors earlier lines produced, and exactly one ProcessorError is
\* raised after the last line if and only if at least one line had an error.
C19_AllLinesScannedThenOneError ==
    (lpc \in {"returned", "raised"}) =>
        /\ lindex = nlines
        /\ (lpc = "raised") <=> (llog /= <<>>)
        /\ (lpc = "raised") => (lerror[1] = "ProcessorError")

\* the part that holds: the errors of a line never end the scan, and a
\* ProcessorError is raised only after the last line and only for errors
ErrorsDoNotEndTheScan ==
    /\ (lpc = "raised" /\ lerror[1] = "ProcessorError") => (lindex = nlines /\ llog /= <<>>)
    /\ (lpc = "returned") => (lindex = nlines /\ llog = <<>>)

\* a product is recorded with the metadata file of its own line
MetadataFileOfOwnLine ==
    \A i \in 1..Len(list_outputs) : list_outputs[i].metadata_file = <<list_outputs[i].line>>

\* ------------------------------------------------------------------------
\* Claim C22
\* ------------------------------------------------------------------------
\* C22: the product recorded for a line of the LIST file carries a metadata
\* file path if and only if a metadata file adjacent to the file(s) of that
\* line exists, and then it is that file; a line without metadata file
\* yields a product without metadata path, whatever earlier lines found.
C22_MetadataOfOwnLineOnly ==
    \A i \in 1..Len(list_outputs) :
        /\ (list_outputs[i].metadata_file /= <<>>) <=> (list_outputs[i].nmeta >= 1)
        /\ (list_outputs[i].metadata_file /= <<>>)
              => (list_outputs[i].metadata_file = <<list_outputs[i].line>>)

\* the part that holds: a line with exactly one metadata file is recorded
\* with that file
OwnMetadataFileRecorded ==
    \A i \in 1..Len(list_outputs) :
        (list_outputs[i].nmeta = 1) => (list_outputs[i].metadata_file = <<list_outputs[i].line>>)

\* ------------------------------------------------------------------------
\* mmfi.py and eegs.py: Backend.locate_and_check_outputs
\* ------------------------------------------------------------------------
\* self.outputs: the outputs of the task table with an external destination,
\* by product type; an MMFI output has the flag mandatory, an EEGS output
\* has none
DeclaredOutputs ==
    IF backend = "MMFI"
    THEN UNION {[T -> [mandatory : BOOLEAN]] : T \in SUBSET FileTypes}
    ELSE UNION {[T -> [file_name_pattern : Patterns]] : T \in SUBSET FileTypes}

\* the keys of a dict in the order of their insertion
KeyOrders(d) ==
    {f \in [1..Cardinality(DOMAIN d) -> DOMAIN d] :
        \A i, j \in 1..Cardinality(DOMAIN d) : f[i] = f[j] => i = j}

\* job.outputs after the outputs were located: some of the declared product
\* types, each with one product or more
Located(declared) ==
    UNION {[T -> 1..MaxMatches] : T \in SUBSET (DOMAIN declared)}

\* the exceptions that leave the MMFI backend while it locates the products
LocateErrors ==
    {<<"ProcessorError", "multiple LIST files found">>,
     <<"ProcessorError", "found LIST file with unexpected filename">>,
     <<"ProcessorError", "LIST file contains errors">>,
     <<"UnboundLocalError">>,
     <<"ProcessorError", "LIST file not found">>,
     <<"Error", "stem expression returns empty stem">>,
     <<"ProcessorError", "inconsistent metadata file presence">>}

\* the test of a declared product type, with the flag mandatory left out
CheckFails_optional_too(product_type) ==
    product_type \notin DOMAIN job_outputs

\* if product_type not in job.outputs: if self.outputs[product_type].mandatory
CheckFails(product_type) ==
    /\ product_type \notin DOMAIN job_outputs
    /\ backend_outputs[product_type].mandatory

LoFrame == UNCHANGED <<base_vars, sens_vars, ivl_vars, wj_vars, cwd_vars, ls_vars,
        sg_vars, st_vars, lh_vars, tv_vars>>

\* MMFI: locate the products (workspace or LIST file), group them by stem and
\* compare the metadata files with the configuration
MmfiLocate ==
    /\ opc = "locate"
    /\ backend = "MMFI"
    /\ \/ \E e \in LocateErrors :
             /\ oerror' = e
             /\ opc' = "raised"
             /\ UNCHANGED <<job_outputs, to_check, olog>>
       \/ \E found \in Located(backend_outputs), warned \in SUBSET (DOMAIN backend_outputs) :
             /\ warned \subseteq DOMAIN found
             /\ job_outputs' = found
             /\ olog' = [i \in 1..Cardinality(warned) |-> <<"WARNING", "metadata file">>]
             /\ \E order \in KeyOrders(backend_outputs) : to_check' = order
             /\ opc' = "check"
             /\ UNCHANGED oerror
    /\ UNCHANGED <<backend_outputs, checked, ohas_errors>>
    /\ LoFrame

\* MMFI: one iteration of the loop over self.outputs
MmfiCheckType ==
    /\ opc = "check"
    /\ backend = "MMFI"
    /\ to_check /= <<>>
    /\ LET product_type == Head(to_check)
       IN /\ IF CheckFails(product_type)
             THEN /\ olog' = Append(olog, <<"ERROR", "no outputs for product type", product_type>>)
                  /\ ohas_errors' = TRUE
             ELSE /\ UNCHANGED ohas_errors
                  /\ IF product_type \in DOMAIN job_outputs /\ job_outputs[product_type] > 1
                     THEN \* has_multi_product_output of the product type
                          \/ olog' = Append(olog, <<"WARNING", "appears more than once", product_type>>)
                          \/ UNCHANGED olog
                     ELSE UNCHANGED olog
          /\ checked' = checked \cup {product_type}
    /\ to_check' = Tail(to_check)
    /\ UNCHANGED <<opc, backend_outputs, job_outputs, oerror>>
    /\ LoFrame

\* EEGS: one iteration of the loop over self.outputs.items(), which matches
\* the files of the working directory against the pattern of the output
EegsCheckType ==
    /\ opc = "check"
    /\ backend = "EEGS"
    /\ to_check /= <<>>
    /\ LET file_type == Head(to_check)
       IN /\ \E matched_files \in 0..MaxMatches :
                IF matched_files = 0
                THEN /\ olog' = Append(olog, <<"ERROR", "no outputs for product type", file_type>>)
                     /\ ohas_errors' = TRUE
                     /\ UNCHANGED job_outputs
                ELSE /\ job_outputs' = Put(job_outputs, file_type, matched_files)
                     /\ UNCHANGED <<olog, ohas_errors>>
          /\ checked' = checked \cup {file_type}
    /\ to_check' = Tail(to_check)
    /\ UNCHANGED <<opc, backend_outputs, oerror>>
    /\ LoFrame

\* if has_errors: raise ProcessorError(...)
CheckEnd ==
    /\ opc = "check"
    /\ to_check = <<>>
    /\ IF ohas_errors
       THEN /\ oerror' = <<"ProcessorError", "outputs produced by processor do not match task table">>
            /\ opc' = "raised"
       ELSE /\ opc' = "returned"
            /\ UNCHANGED oerror
    /\ UNCHANGED <<backend_outputs, job_outputs, to_check, checked, ohas_errors, olog>>
    /\ LoFrame

\* Job.run calls locate_and_check_outputs once, with job.outputs empty
LocateInit ==
    /\ BaseIdle
    /\ backend \in {"MMFI", "EEGS"}
    /\ SensIdle
    /\ IvlIdle
    /\ WjIdle
    /\ CwdIdle
    /\ LsIdle
    /\ backend_outputs \in DeclaredOutputs
    /\ job_outputs = <<>>
    /\ IF backend = "MMFI"
       THEN opc = "locate" /\ to_check = <<>>
       ELSE opc = "check" /\ to_check \in KeyOrders(backend_outputs)
    /\ checked = {}
    /\ ohas_errors = FALSE
    /\ olog = <<>>
    /\ oerror = <<>>
    /\ SgIdle
    /\ StIdle
    /\ LhIdle
    /\ TvIdle

LocateNext == MmfiLocate \/ MmfiCheckType \/ EegsCheckType \/ CheckEnd

LocateSpec == LocateInit /\ [][LocateNext]_vars

\* ------------------------------------------------------------------------
\* Claim C20
\* ------------------------------------------------------------------------
\* a declared external output that must be produced: MMFI has the flag of
\* the task table, EEGS requires every one
MandatoryTypes ==
    IF backend = "MMFI"
    THEN {t \in DOMAIN backend_outputs : backend_outputs[t].mandatory}
    ELSE DOMAIN backend_outputs

\* the mandatory types without product in job.outputs
MissingTypes == {t \in MandatoryTypes : t \notin DOMAIN job_outputs}

MismatchError == <<"ProcessorError", "outputs produced by processor do not match task table">>

\* C20: locate_and_check_outputs examines every declared external
\* output type before failing: it raises exactly one ProcessorError, after
\* the last type was checked, if and only if some mandatory declared output
\* type has no product; whenever it returns normally every mandatory declared
\* type has at least one product in job.outputs.
C20_AllTypesCheckedThenOneError ==
    (opc \in {"returned", "raised"}) =>
        /\ checked = DOMAIN backend_outputs
        /\ (opc = "raised") <=> (MissingTypes /= {})
        /\ (opc = "raised") => (oerror[1] = "ProcessorError")
        /\ (opc = "returned") => (MissingTypes = {})

\* the part that holds: once the products were located (which the MMFI
\* backend may end with an exception of its own before any type is checked),
\* every declared external output type is examined, the one ProcessorError
\* for the task table is raised after the last type if and only if some
\* mandatory type has no product, each such type having been logged, and a
\* normal return means that every mandatory type has a product in job.outputs.
CheckAggregatesMissingOutputs ==
    /\ (opc \in {"returned", "raised"} /\ oerror \notin LocateErrors) =>
          /\ checked = DOMAIN backend_outputs
          /\ (opc = "raised") <=> (MissingTypes /= {})
          /\ (opc = "raised") => (oerror = MismatchError)
          /\ \A t \in MissingTypes :
                \E i \in 1..Len(olog) : olog[i] = <<"ERROR", "no outputs for product type", t>>
    /\ (opc = "returned") =>
          \A t \in MandatoryTypes : t \in DOMAIN job_outputs /\ job_outputs[t] >= 1
    /\ (oerror = MismatchError) => (to_check = <<>> /\ checked = DOMAIN backend_outputs)
    /\ (opc = "check" /\ oerror = <<>>)
          => checked = DOMAIN backend_outputs \ {to_check[i] : i \in 1..Len(to_check)}

\* the first of two declared types has no product, the second was examined
\* all the same and the error was raised after it
MissingFirstCheckedSecond ==
    /\ opc = "raised"
    /\ oerror = MismatchError
    /\ checked = FileTypes
    /\ Len(olog) >= 1
    /\ olog[1] = <<"ERROR", "no outputs for product type", "A">>
    /\ "B" \in DOMAIN job_outputs

\* ------------------------------------------------------------------------
\* mmfi.py: Backend.locate_and_check_outputs, the grouping by stem
\* ------------------------------------------------------------------------
\* products of one output before the grouping
MaxLocated == 2
\* filepaths of one located product
MaxFilepaths == 2

\* the names of the located files: the part that the stem expression
\* matches at the start of the name, and the rest of the name
FileNames == {<<"A_001", ".DAT">>, <<"A_001", ".HDR">>, <<"A_002", ".DAT">>, <<"", "README.txt">>}
MetadataPaths == {None, "A_001.MTD"}

\* match_obj = re.match(stem_expression, filepath.name);
\* stem = "" if match_obj is None else match_obj.group()
Stem(fpath) == fpath[1]

\* joborder.OutputProduct
OutputProducts ==
    [filepaths : UNION {[1..n -> FileNames] : n \in 1..MaxFilepaths},
     metadata_filepath : MetadataPaths]

\* the position of stem in groups, 0 when it is no key
GroupIndex(gs, stem) ==
    IF \E i \in 1..Len(gs) : gs[i].stem = stem
    THEN CHOOSE i \in 1..Len(gs) : gs[i].stem = stem
    ELSE 0

\* the assignment groups[stem] = ... made for a stem that is a key already
Merge_replace(g, fpath) == [g EXCEPT !.filepaths = <<fpath>>]

\* groups[stem].filepaths.append(filepath)
Merge(g, fpath) == [g EXCEPT !.filepaths = Append(@, fpath)]

SgFrame == UNCHANGED <<base_vars, sens_vars, ivl_vars, wj_vars, cwd_vars, ls_vars, lo_vars,
        st_vars, lh_vars, tv_vars>>

\* the head of the loop over output.products
GroupNextProduct ==
    /\ gpc = "products"
    /\ gp < Len(products)
    /\ gp' = gp + 1
    /\ gf' = 0
    /\ gpc' = "filepaths"
    /\ UNCHANGED <<products, groups, gerror>>
    /\ SgFrame

\* one iteration of the loop over product.filepaths
GroupFilepath ==
    /\ gpc = "filepaths"
    /\ gf < Len(products[gp].filepaths)
    /\ gf' = gf + 1
    /\ LET product == products[gp]
           fpath == product.filepaths[gf + 1]
           stem == Stem(fpath)
           k == GroupIndex(groups, stem)
       IN IF stem = ""
          THEN /\ gerror' = <<"Error", "stem expression returns empty stem", fpath>>
               /\ gpc' = "raised"
               /\ UNCHANGED groups
          ELSE IF k /= 0
          THEN IF groups[k].metadata_filepath /= product.metadata_filepath
               THEN /\ gerror' = <<"ProcessorError", "inconsistent metadata file presence", stem>>
                    /\ gpc' = "raised"
                    /\ UNCHANGED groups
               ELSE /\ groups' = [groups EXCEPT ![k] = Merge(@, fpath)]
                    /\ UNCHANGED <<gpc, gerror>>
          ELSE /\ groups' = Append(groups, [stem |-> stem, filepaths |-> <<fpath>>,
                                            metadata_filepath |-> product.metadata_filepath])
               /\ UNCHANGED <<gpc, gerror>>
    /\ UNCHANGED <<products, gp>>
    /\ SgFrame

\* the filepaths of the product are exhausted
GroupEndProduct ==
    /\ gpc = "filepaths"
    /\ gf = Len(products[gp].filepaths)
    /\ gpc' = "products"
    /\ UNCHANGED <<products, gp, gf, groups, gerror>>
    /\ SgFrame

\* output.products = list(groups.values())
GroupEnd ==
    /\ gpc = "products"
    /\ gp = Len(products)
    /\ products' = [i \in 1..Len(groups) |->
                       [filepaths |-> groups[i].filepaths,
                        metadata_filepath |-> groups[i].metadata_filepath]]
    /\ gpc' = "done"
    /\ groups' = <<>>
    /\ UNCHANGED <<gp, gf, gerror>>
    /\ SgFrame

\* an output of a product type with a stem expression, as located
GroupInit ==
    /\ BaseIdle
    /\ backend = "MMFI"
    /\ SensIdle
    /\ IvlIdle
    /\ WjIdle
    /\ CwdIdle
    /\ LsIdle
    /\ LoIdle
    /\ gpc = "products"
    /\ products \in UNION {[1..n -> OutputProducts] : n \in 0..MaxLocated}
    /\ gp = 0
    /\ gf = 0
    /\ groups = <<>>
    /\ gerror = <<>>
    /\ StIdle
    /\ LhIdle
    /\ TvIdle

GroupNext == GroupNextProduct \/ GroupFilepath \/ GroupEndProduct \/ GroupEnd

GroupSpec == GroupInit /\ [][GroupNext]_vars

\* ------------------------------------------------------------------------
\* Claim C21
\* ------------------------------------------------------------------------
\* the files of a sequence of products
FilesOf(ps) == UNION {{ps[i].filepaths[j] : j \in 1..Len(ps[i].filepaths)} : i \in 1..Len(ps)}

\* the files that the groups hold are the files visited so far
VisitedFiles ==
    LET before == SubSeq(products, 1, gp - 1)
        current == IF gp = 0 THEN {}
                   ELSE {products[gp].filepaths[j] : j \in 1..gf}
    IN FilesOf(before) \cup current

\* groups partition the files visited so far by stem
GroupsPartitionVisited ==
    (gpc \in {"products", "filepaths"}) =>
        /\ \A i, j \in 1..Len(groups) : groups[i].stem = groups[j].stem => i = j
        /\ \A i \in 1..Len(groups) :
              {groups[i].filepaths[j] : j \in 1..Len(groups[i].filepaths)}
                 = {f \in VisitedFiles : Stem(f) = groups[i].stem}
        /\ \A f \in VisitedFiles : \E i \in 1..Len(groups) : groups[i].stem = Stem(f)
        /\ \A f \in VisitedFiles : Stem(f) /= ""

\* C21: after the grouping by stem the products of the output partition the
\* located files by extracted stem: one product per distinct stem, two files
\* in the same product iff they have the same stem, every located file in
\* exactly one product; a file with an empty stem ends the discovery with an
\* error.
C21_ProductsPartitionFilesByStem ==
    /\ []GroupsPartitionVisited
    /\ [][gpc' = "done" =>
            /\ gp = Len(products) /\ gpc = "products"
            /\ FilesOf(products') = FilesOf(products)
            /\ \A i \in 1..Len(products') :
                  \E st \in {Stem(f) : f \in FilesOf(products)} :
                     {products'[i].filepaths[j] : j \in 1..Len(products'[i].filepaths)}
                        = {f \in FilesOf(products) : Stem(f) = st}
            /\ \A i, j \in 1..Len(products') :
                  (\E f \in FilesOf(products) :
                      /\ f \in {products'[i].filepaths[k] : k \in 1..Len(products'[i].filepaths)}
                      /\ f \in {products'[j].filepaths[k] : k \in 1..Len(products'[j].filepaths)})
                  => i = j
            /\ Len(products') = Cardinality({Stem(f) : f \in FilesOf(products)})
            /\ \A f \in FilesOf(products) : Stem(f) /= ""]_vars
    /\ [][(gpc = "filepaths" /\ gf' = gf + 1 /\ Stem(products[gp].filepaths[gf + 1]) = "")
            => (gpc' = "raised" /\ gerror'[1] = "Error")]_vars

\* A_001.DAT and A_002.DAT located as one product and A_001.HDR as another
\* were grouped into {A_001.DAT, A_001.HDR} and {A_002.DAT}
C21_Witness ==
    /\ gpc = "done"
    /\ Len(products) = 2
    /\ products[1].filepaths = <<<<"A_001", ".DAT">>, <<"A_001", ".HDR">>>>
    /\ products[2].filepaths = <<<<"A_002", ".DAT">>>>

\* ------------------------------------------------------------------------
\* Claim C23
\* ------------------------------------------------------------------------
\* C23: when spawning the process of a task fails (executable not found,
\* permission denied), run_task reports a ProcessorError, the error kind of
\* an unexpected exit code: whatever makes run_task raise, it raises a
\* ProcessorError.
C23_SpawnFailureIsProcessorError ==
    (pc = "raised") => (error.kind = "ProcessorError")

\* the part that holds: a process that was spawned makes run_task raise
\* nothing but ProcessorError
SpawnedRaisesProcessorError ==
    (pc = "raised" /\ procs /= <<>>) => (error.kind = "ProcessorError")

\* ------------------------------------------------------------------------
\* Claim C24
\* ------------------------------------------------------------------------
\* no handle of the run log LOG.<job_id> is open
RunLogClosed == log_fp \in {None, "closed"}

\* C24: on every exit path of Job.run (success, processor error in any task,
\* configuration error, interruption while a task runs) every log file handle
\* that the job opened is closed when run returns or raises: the run log is
\* closed before run_task returns or raises, and the handle of pvml.log is
\* closed and reset to None.
C24_LogHandlesClosedOnExit ==
    /\ (pc \in {"returned", "raised", "check"}) => RunLogClosed
    /\ (stage \in {"done", "failed"}) => (pvml_log = None /\ RunLogClosed)

\* Job.run was left by the interruption of a running task whose run log and
\* pvml.log were open
C24_Witness ==
    /\ stage = "failed"
    /\ error.kind = "KeyboardInterrupt"
    /\ log_fp = "closed"
    /\ pvml_log = None
    /\ procs /= <<>>

\* ------------------------------------------------------------------------
\* Claim C25
\* ------------------------------------------------------------------------
\* the file types that a step adds to job.inputs
AddedJobInputs == DOMAIN job_inputs' \ DOMAIN job_inputs

\* C25: after MMFI initialize_job, job.inputs has an entry for a file type
\* only if the alternative selected for that file type has origin DB: each
\* entry is made by the selection of an alternative of origin DB, and the
\* selection of an alternative of origin PROC or LOG makes none.
C25_JobInputsOnlyFromOriginDb ==
    [][(MmfiAltsStep /\ AddedJobInputs /= {}) =>
          /\ chosen' /= <<>>
          /\ AddedJobInputs = {chosen'[1].file_type}
          /\ chosen'[1].origin = "DB"]_vars

\* the part that holds: an entry of job.inputs holds the products of the job
\* configuration or those of the archive query of an alternative of origin
\* DB; the literal file of an origin PROC or LOG is never put there
JobInputsFromConfigOrQuery ==
    [][(MmfiAltsStep /\ AddedJobInputs /= {}) =>
          /\ chosen' /= <<>>
          /\ AddedJobInputs = {chosen'[1].file_type}
          /\ LET ft == chosen'[1].file_type
             IN \/ ft \in predefined_inputs /\ job_inputs'[ft] = JobInput(ft, "config")
                \/ /\ chosen'[1].origin = "DB"
                   /\ ft \in archive_has
                   /\ job_inputs'[ft] = JobInput(ft, "query")]_vars

\* ------------------------------------------------------------------------
\* mmfi.py, Backend.locate_and_check_outputs: the choice between the scan
\* of the LIST file and the scan of the working directory
\* ------------------------------------------------------------------------
\* *.LIST files in the working directory
MaxListFiles == 2

\* the names that glob("*.LIST") finds: the part before the suffix, and the suffix
ListBasenames == {<<"1", ".LIST">>, <<"2", ".LIST">>, <<"out", ".LIST">>}

\* job.config.joborder_id + ".LIST"
ExpectedListBasename(id) == <<id, ".LIST">>

\* list_files[0] of a list of one file
OnlyFile(names) == CHOOSE n \in names : TRUE

UnexpectedName_any(uses_order_id, list_basename, id) ==
    list_basename /= ExpectedListBasename(id)

\* variant_listfile_uses_order_id and list_basename != expected_list_basename
UnexpectedName(uses_order_id, list_basename, id) ==
    uses_order_id /\ list_basename /= ExpectedListBasename(id)

StProcessorError(msg) == [kind |-> "ProcessorError", message |-> msg]

\* the statement that the if-cascade of the location step reaches: a scan
\* to call, or a ProcessorError to raise
Strategy(ignore, uses_order_id, mandatory, id, names) ==
    IF ignore THEN [do |-> "scan", scan |-> "workspace"]
    ELSE IF Cardinality(names) > 1
         THEN [do |-> "raise", error |-> StProcessorError("multiple LIST files found")]
    ELSE IF Cardinality(names) = 1
         THEN IF UnexpectedName(uses_order_id, OnlyFile(names), id)
              THEN [do |-> "raise",
                    error |-> StProcessorError("found LIST file with unexpected filename")]
              ELSE [do |-> "scan", scan |-> "list"]
    ELSE IF mandatory
         THEN [do |-> "raise", error |-> StProcessorError("LIST file not found")]
    ELSE [do |-> "scan", scan |-> "workspace"]

\* what a scan can end with: its return, or the exception that leaves it
\* (_scan_list_file_for_output_products raises ProcessorError for a LIST
\* file with errors and UnboundLocalError for the unassigned metadata_file)
ScanOutcomes(scan) ==
    IF scan = "list"
    THEN {NoError, StProcessorError("LIST file errors"), [kind |-> "UnboundLocalError"]}
    ELSE {NoError}

StFrame == UNCHANGED <<base_vars, sens_vars, ivl_vars, wj_vars, cwd_vars, ls_vars, lo_vars, sg_vars,
        lh_vars, tv_vars>>

\* the if-cascade up to the call of a scan, or up to its raise
StSelect ==
    /\ stpc = "locate"
    /\ LET s == Strategy(variant_ignore_listfile, variant_listfile_uses_order_id,
                         variant_listfile_mandatory, order_id, list_names)
       IN IF s.do = "scan"
          THEN /\ scan_calls' = Append(scan_calls, s.scan)
               /\ stpc' = "scan"
               /\ UNCHANGED sterror
          ELSE /\ sterror' = s.error
               /\ stpc' = "raised"
               /\ UNCHANGED scan_calls
    /\ UNCHANGED <<variant_ignore_listfile, variant_listfile_uses_order_id,
                   variant_listfile_mandatory, order_id, list_names>>
    /\ StFrame

\* the scan returns and the stem grouping follows, or the scan raises
StScan ==
    /\ stpc = "scan"
    /\ \E e \in ScanOutcomes(scan_calls[Len(scan_calls)]) :
          /\ sterror' = e
          /\ stpc' = IF e = NoError THEN "group" ELSE "raised"
    /\ UNCHANGED <<variant_ignore_listfile, variant_listfile_uses_order_id,
                   variant_listfile_mandatory, order_id, list_names, scan_calls>>
    /\ StFrame

StrategyInit ==
    /\ BaseIdle
    /\ backend = "MMFI"
    /\ SensIdle /\ IvlIdle /\ WjIdle /\ CwdIdle /\ LsIdle /\ LoIdle /\ SgIdle
    /\ stpc = "locate"
    /\ variant_ignore_listfile \in BOOLEAN
    /\ variant_listfile_uses_order_id \in BOOLEAN
    /\ variant_listfile_mandatory \in BOOLEAN
    /\ order_id \in JoborderIds
    /\ list_names \in {n \in SUBSET ListBasenames : Cardinality(n) <= MaxListFiles}
    /\ scan_calls = <<>>
    /\ sterror = NoError
    /\ LhIdle
    /\ TvIdle

StrategyNext == StSelect \/ StScan

StrategySpec == StrategyInit /\ [][StrategyNext]_vars

\* ------------------------------------------------------------------------
\* Claim C26
\* ------------------------------------------------------------------------
\* the location step of locate_and_check_outputs is past its if-cascade
Selected == stpc \in {"scan", "group", "raised"}

RaisedBySelection(msg) ==
    /\ stpc = "raised"
    /\ scan_calls = <<>>
    /\ sterror = StProcessorError(msg)

\* C26: the MMFI output discovery scans the directory when the LIST file is
\* ignored; otherwise it raises ProcessorError for more than one .LIST file,
\* scans the one .LIST file (after the check of its name against
\* <joborder_id>.LIST when listfile-uses-order-id is on, which raises
\* ProcessorError for another name), and without .LIST file raises
\* ProcessorError when the LIST file is mandatory and scans the directory
\* when it is not.  It never runs both scans.
C26_OneDiscoveryStrategy ==
    Selected =>
        /\ Len(scan_calls) <= 1
        /\ variant_ignore_listfile => scan_calls = <<"workspace">>
        /\ ~variant_ignore_listfile =>
            /\ Cardinality(list_names) > 1 => RaisedBySelection("multiple LIST files found")
            /\ Cardinality(list_names) = 1 =>
                 IF /\ variant_listfile_uses_order_id
                    /\ list_names /= {ExpectedListBasename(order_id)}
                 THEN RaisedBySelection("found LIST file with unexpected filename")
                 ELSE scan_calls = <<"list">>
            /\ Cardinality(list_names) = 0 =>
                 IF variant_listfile_mandatory
                 THEN RaisedBySelection("LIST file not found")
                 ELSE scan_calls = <<"workspace">>

\* one LIST file whose name is not that of the job order is scanned, since
\* the name check is off
C26_Witness ==
    /\ stpc = "group"
    /\ ~variant_ignore_listfile
    /\ ~variant_listfile_uses_order_id
    /\ Cardinality(list_names) = 1
    /\ list_names /= {ExpectedListBasename(order_id)}
    /\ scan_calls = <<"list">>

\* ------------------------------------------------------------------------
\* Claim C27
\* ------------------------------------------------------------------------
\* every key of job.inputs is a key of the resolution cache
JobInputsAreCached == DOMAIN job_inputs \subseteq DOMAIN input_cache

\* C27: neither assertion of MMFI initialize_job fails: a file type is put
\* into job.inputs at most once, because every key of job.inputs is a key
\* of the resolution cache and the cache is consulted before a file type is
\* bound anew.
C27_AssertionsNeverFail ==
    /\ [](backend = "MMFI" => error.kind /= "AssertionError" /\ JobInputsAreCached)
    /\ [][MmfiAltsStep => AddedJobInputs \cap DOMAIN input_cache = {}]_vars

\* the second input of a task names a file type that the first one put into
\* job.inputs, and is served by the cache
C27_Witness ==
    /\ backend = "MMFI"
    /\ rpc = "bound"
    /\ input_element.kind = "alts"
    /\ Len(task.inputs) = 2
    /\ task.inputs[1] = task.inputs[2]
    /\ chosen /= <<>>
    /\ chosen[1].file_type \in DOMAIN job_inputs
    /\ job_inputs[chosen[1].file_type] = JobInput(chosen[1].file_type, "query")

\* ------------------------------------------------------------------------
\* Claim C28
\* ------------------------------------------------------------------------
\* C28: in EEGS initialize_job the file type of an EXTERNAL alternative type
\* that is found in the selection cache is a key of job.inputs, so the
\* lookup job.inputs[file_type] never fails, also when the file type was
\* removed as virtual or was first cached as the internal output of a task.
C28_CachedExternalIsJobInput == (backend = "EEGS") => error.kind /= "KeyError"

\* ------------------------------------------------------------------------
\* joborder.py, PVMLLogFileHandler: the records of the pvml logger before,
\* while and after Job.run has pvml.log open
\* ------------------------------------------------------------------------
\* records that the logger emits during one job
MaxRecords == 4

\* record.levelname
LevelNames == {"INFO", "ERROR"}

\* a log record: its creation time (the position in the emission order) and
\* its level
LogRecord(created, levelname) == [created |-> created, levelname |-> levelname]

\* timestamp + " " + record.levelname + " " + record.getMessage() + "\n"
Line(record) == <<"T", record.created, record.levelname, "message">>

WriteBuffered_dropped(file, buffer) == file

\* for buffered_line in self.pvml_log_buffer: self.pvml_log.write(buffered_line)
WriteBuffered(file, buffer) == file \o buffer

LhFrame == UNCHANGED <<base_vars, sens_vars, ivl_vars, wj_vars, cwd_vars, ls_vars, lo_vars, sg_vars, st_vars,
        tv_vars>>

\* PVMLLogFileHandler.emit for the next record of the logger
Emit ==
    /\ hpc \in {"buffering", "open", "closed"}
    /\ Len(records) < MaxRecords
    /\ \E levelname \in LevelNames :
          LET record == LogRecord(Len(records) + 1, levelname)
              line == Line(record)
          IN /\ records' = Append(records, record)
             /\ IF log_file_handler.pvml_log = None
                THEN /\ log_file_handler' =
                            [log_file_handler EXCEPT !.pvml_log_buffer = Append(@, line)]
                     /\ UNCHANGED pvml_log_file
                ELSE /\ pvml_log_file' =
                            Append(WriteBuffered(pvml_log_file, log_file_handler.pvml_log_buffer),
                                   line)
                     /\ log_file_handler' = [log_file_handler EXCEPT !.pvml_log_buffer = <<>>]
    /\ UNCHANGED <<hpc, nbefore>>
    /\ LhFrame

\* Job.run: self.log_file_handler.pvml_log = open(Path(..., "pvml.log"), "w")
OpenPvmlLog ==
    /\ hpc = "buffering"
    /\ hpc' = "open"
    /\ log_file_handler' = [log_file_handler EXCEPT !.pvml_log = "open"]
    /\ pvml_log_file' = <<>>
    /\ nbefore' = Len(records)
    /\ UNCHANGED records
    /\ LhFrame

\* Job.run, the finally clause: close pvml.log and set pvml_log to None
ClosePvmlLogFile ==
    /\ hpc = "open"
    /\ hpc' = "closed"
    /\ log_file_handler' = [log_file_handler EXCEPT !.pvml_log = None]
    /\ UNCHANGED <<pvml_log_file, records, nbefore>>
    /\ LhFrame

HandlerInit ==
    /\ BaseIdle
    /\ backend \in {"MMFI", "EEGS"}
    /\ SensIdle /\ IvlIdle /\ WjIdle /\ CwdIdle /\ LsIdle /\ LoIdle /\ SgIdle /\ StIdle
    /\ hpc = "buffering"
    /\ log_file_handler = [pvml_log |-> None, pvml_log_buffer |-> <<>>]
    /\ pvml_log_file = <<>>
    /\ records = <<>>
    /\ nbefore = 0
    /\ TvIdle

HandlerNext == Emit \/ OpenPvmlLog \/ ClosePvmlLogFile

HandlerSpec == HandlerInit /\ [][HandlerNext]_vars

\* ------------------------------------------------------------------------
\* Claim C29
\* ------------------------------------------------------------------------
\* the lines of the records emitted so far, in emission order
EmittedLines == [i \in 1..Len(records) |-> Line(records[i])]

\* the lines of the file and then those of the buffer are the emitted lines
NothingLostOrReordered ==
    pvml_log_file \o log_file_handler.pvml_log_buffer = EmittedLines

\* C29: PVMLLogFileHandler neither loses nor reorders records around the
\* opening of pvml.log: a record emitted while no file is open is buffered;
\* the first record emitted after the opening is written after all buffered
\* ones, each written once and in emission order; the lines of the file are
\* always in emission order.
C29_RecordsKeptInOrder ==
    /\ []NothingLostOrReordered
    /\ [](hpc = "buffering" =>
             pvml_log_file = <<>> /\ log_file_handler.pvml_log_buffer = EmittedLines)
    /\ [][(hpc = "open" /\ Len(records') > Len(records)) =>
             /\ log_file_handler'.pvml_log_buffer = <<>>
             /\ pvml_log_file' = [i \in 1..Len(records') |-> Line(records'[i])]]_vars

\* two records were buffered before the opening and are in the file, in
\* order, in front of the record emitted after it
C29_Witness ==
    /\ hpc = "open"
    /\ nbefore = 2
    /\ Len(records) = 3
    /\ pvml_log_file = EmittedLines
    /\ log_file_handler.pvml_log_buffer = <<>>

\* ------------------------------------------------------------------------
\* mmfi.py, Backend.write_joborder: the List_of_Time_Intervals of one input
\* ------------------------------------------------------------------------
\* files of one task input
MaxFiles == 2

\* mmfi.InputFile: a dataclass whose start_time and stop_time default to None
InputFiles == [start_time : OptTimes, stop_time : OptTimes]

\* getattr(object, name, default): the default is the result only when the
\* object has no such attribute
getattr(object, name, default) == IF name \in DOMAIN object THEN object[name] ELSE default

\* intersects called with bounds that may be None: "a <= b" with None raises
\* TypeError, unless an earlier operand of the "and" chain is already false
IntersectsCall(start_a, stop_a, start_b, stop_b) ==
    IF ~(start_a <= stop_a) THEN [error |-> NoError, value |-> FALSE]
    ELSE IF start_b = NoTime \/ stop_b = NoTime
         THEN [error |-> [kind |-> "TypeError"], value |-> FALSE]
    ELSE [error |-> NoError, value |-> intersects(start_a, stop_a, start_b[1], stop_b[1])]

\* Config.format_timestamp: every supported format compares the timestamp
\* with datetime.min and datetime.max and then calls timestamp.strftime,
\* which None does not have
format_timestamp(timestamp) ==
    IF timestamp = NoTime THEN [error |-> [kind |-> "AttributeError"], text |-> None]
    ELSE [error |-> NoError,
          text |-> IF timestamp[1] = TimeMin THEN <<"min_time_pattern">>
                   ELSE IF timestamp[1] = TimeMax THEN <<"max_time_pattern">>
                   ELSE <<"strftime", timestamp[1]>>]

\* the body of the loop for one file: the Time_Interval element that it
\* writes (none: <<>>) or the exception that it raises
TimeIntervalOf(file, always, clip, sens) ==
    IF ~((file.start_time /= NoTime /\ file.stop_time /= NoTime) \/ always)
    THEN [error |-> NoError, interval |-> <<>>]
    ELSE LET file_start == getattr(file, "start_time", <<TimeMin>>)
             file_stop == getattr(file, "stop_time", <<TimeMax>>)
             hit == IF clip THEN IntersectsCall(sens.start[1], sens.stop[1], file_start, file_stop)
                    ELSE [error |-> NoError, value |-> FALSE]
         IN IF hit.error /= NoError THEN [error |-> hit.error, interval |-> <<>>]
            ELSE LET clipped == IF hit.value
                                THEN intersection(sens.start[1], sens.stop[1], file_start[1], file_stop[1])
                                ELSE <<>>
                     start == format_timestamp(IF hit.value THEN <<clipped[1]>> ELSE file_start)
                     stop == format_timestamp(IF hit.value THEN <<clipped[2]>> ELSE file_stop)
                 IN IF start.error /= NoError THEN [error |-> start.error, interval |-> <<>>]
                    ELSE IF stop.error /= NoError THEN [error |-> stop.error, interval |-> <<>>]
                    ELSE [error |-> NoError,
                          interval |-> <<[Start |-> start.text, Stop |-> stop.text]>>]

TvFrame == UNCHANGED <<base_vars, sens_vars, ivl_vars, wj_vars, cwd_vars, ls_vars, lo_vars, sg_vars, st_vars, lh_vars>>

\* one iteration of "for file in input.files" of the time interval list
TimeIntervalOfFile ==
    /\ tvpc = "files"
    /\ nfiles < Len(input_files)
    /\ LET r == TimeIntervalOf(input_files[nfiles + 1],
                               variant_always_include_input_time_interval,
                               variant_clip_input_time_interval_to_sensing_interval, sensing)
       IN IF r.error = NoError
          THEN /\ time_intervals' = time_intervals \o r.interval
               /\ nfiles' = nfiles + 1
               /\ UNCHANGED <<tvpc, tverror>>
          ELSE /\ tverror' = r.error
               /\ tvpc' = "raised"
               /\ UNCHANGED <<time_intervals, nfiles>>
    /\ UNCHANGED <<variant_clip_input_time_interval_to_sensing_interval, input_files>>
    /\ TvFrame

\* interval_list.set("count", str(num_time_intervals))
TimeIntervalsEnd ==
    /\ tvpc = "files"
    /\ nfiles = Len(input_files)
    /\ tvpc' = "done"
    /\ UNCHANGED <<variant_clip_input_time_interval_to_sensing_interval, input_files,
                   nfiles, time_intervals, tverror>>
    /\ TvFrame

TimeIntervalInit ==
    /\ BaseIdle
    /\ backend = "MMFI"
    /\ IvlIdle /\ WjIdle /\ CwdIdle /\ LsIdle /\ LoIdle /\ SgIdle /\ StIdle /\ LhIdle
    /\ tvpc = "files"
    \* the sensing interval as initialize_job leaves it: no bound is None
    /\ spc = "idle"
    /\ config_sensing = NoInterval
    /\ input_times = NoInterval
    /\ resolved = <<>>
    /\ ncfg = 0
    /\ nprod = 0
    /\ sensing \in [start : {<<t>> : t \in AllTimes}, stop : {<<t>> : t \in AllTimes}]
    /\ variant_always_include_input_time_interval \in BOOLEAN
    /\ variant_clip_input_time_interval_to_sensing_interval \in BOOLEAN
    /\ input_files \in UNION {[1..n -> InputFiles] : n \in 0..MaxFiles}
    /\ nfiles = 0
    /\ time_intervals = <<>>
    /\ tverror = NoError

TimeIntervalNext == TimeIntervalOfFile \/ TimeIntervalsEnd

TimeIntervalSpec == TimeIntervalInit /\ [][TimeIntervalNext]_vars

\* ------------------------------------------------------------------------
\* Claim C30
\* ------------------------------------------------------------------------
\* the sentinel for an unknown bound
OrSentinel(time, sentinel) == IF time = NoTime THEN <<sentinel>> ELSE time

\* the interval that the claim expects for a file
ExpectedInterval(file) ==
    LET file_start == OrSentinel(file.start_time, TimeMin)
        file_stop == OrSentinel(file.stop_time, TimeMax)
        clip == /\ variant_clip_input_time_interval_to_sensing_interval
                /\ intersects(sensing.start[1], sensing.stop[1], file_start[1], file_stop[1])
        clipped == intersection(sensing.start[1], sensing.stop[1], file_start[1], file_stop[1])
    IN [Start |-> format_timestamp(IF clip THEN <<clipped[1]>> ELSE file_start).text,
        Stop |-> format_timestamp(IF clip THEN <<clipped[2]>> ELSE file_stop).text]

\* C30: with always-include-input-time-interval on, MMFI write_joborder
\* writes one time interval per file of the input, with the sentinel minimum
\* or maximum for a start or stop time that is unknown, and does not fail on
\* a file with unknown times.
C30_UnknownTimesGetSentinels ==
    variant_always_include_input_time_interval =>
        /\ tvpc /= "raised"
        /\ Len(time_intervals) = nfiles
        /\ \A i \in 1..nfiles : time_intervals[i] = ExpectedInterval(input_files[i])

\* the part that holds: a file whose two times are known gets its interval,
\* and without the variant a file with an unknown time gets none
KnownTimes(file) == file.start_time /= NoTime /\ file.stop_time /= NoTime

KnownTimesGiveIntervals ==
    /\ (\A i \in 1..Len(input_files) : KnownTimes(input_files[i])) =>
          /\ tvpc /= "raised"
          /\ Len(time_intervals) = nfiles
          /\ \A i \in 1..nfiles : time_intervals[i] = ExpectedInterval(input_files[i])
    /\ ~variant_always_include_input_time_interval =>
          /\ tvpc /= "raised"
          /\ Len(time_intervals) = Cardinality({i \in 1..nfiles : KnownTimes(input_files[i])})

====
